---- MODULE Spec2Model ----
(***************************************************************************)
(* Health state tracking, transition alerting and auto-remediation of the  *)
(* CCTV operations tool (health_monitor.py), and its rule evaluation       *)
(* engine (alert_engine.py, email_notifier.py).                            *)
(*                                                                         *)
(* Time is counted in minutes since the process started (minute 0 is local *)
(* midnight).  Dictionaries keyed by camera name are functions over        *)
(* Cameras; a missing key is the value None / NoRow / NoEntry.             *)
(***************************************************************************)
EXTENDS Integers, FiniteSets, Sequences, TLC

Cameras == {"CAM-1"}

Bad == {"degraded", "offline"}
ProbeStatus == {"online", "degraded", "offline"}

\* a missing dictionary key or a NULL column
None == -1

(***************************************************************************)
(* Configuration read from the environment by the constructors.            *)
(***************************************************************************)
alert_cooldown == 30
max_daily_alerts == 3
auto_reboot_threshold == 6
auto_reboot_enabled == TRUE
ticket_cooldown_hours == 24
check_interval == 300
\* ALERT_THRESHOLD_FAILURES: the default 3 and the value 1
AlertThresholds == {1, 3}
\* AlertManager.maintenance_emails is configured (non-empty)
maintenance_emails == TRUE
\* RemediationManager.reboot_callback is configured
reboot_callback == TRUE

(***************************************************************************)
(* Bounds of the model.                                                    *)
(***************************************************************************)
MaxFailures == 7
MaxAdvance == 1
MaxAlerts == 4

MinutesPerDay == 1440
TimeSteps == {check_interval \div 60, ticket_cooldown_hours * 60}

VARIABLES
    now,                        \* datetime.now(), minutes
    advances,                   \* number of clock advances so far
    alert_threshold,            \* AlertManager.alert_threshold
    db,                         \* camera_health_summary rows
    health_cache,               \* HealthCheckManager.health_cache
    previous_status,            \* AlertManager.previous_status
    last_alert_time,            \* AlertManager.last_alert_time
    alert_count_today,          \* AlertManager.alert_count_today
    last_reset_date,            \* AlertManager.last_reset_date
    cameras_under_remediation,  \* keys of RemediationManager.cameras_under_remediation
    last_ticket_time,           \* RemediationManager.last_ticket_time
    last_call,                  \* what the controllers were last handed and did
    incident,                   \* the incident the alert controller is watching
    closed_incident,            \* the last incident that ended with an Online check
    pc,                         \* where each thread is in check_and_remediate
    args,                       \* the arguments of each thread's call
    reboot_result,              \* what the reboot action last returned to each thread
    ticket_id,                  \* cameras_under_remediation[camera]['ticket_id']
    reboots,                    \* reboot actions invoked since the guard was last absent
    cooldown_started,           \* when a ticket cooldown was last started
    operator_clear,             \* what the operator cleared since the last decision
    probe,                      \* the result of each camera's last check_camera_health
    store_up,                   \* the SQL Server store is reachable
    conn,                       \* AlertEngine.conn
    engine_pc,                  \* where AlertEngine._run_loop is
    cycles,                     \* evaluation cycles slept through so far
    cycle_read_rules,           \* the current cycle has read the alert rules
    rule_queue,                 \* rules the cycle has still to evaluate
    camera_queue,               \* cameras the current rule has still to evaluate
    skipped,                    \* cameras the cycle has left out because of an exception
    triggered_at,               \* alert_history: the last row of each (rule, camera)
    last_eval,                  \* what the last evaluation of a camera found and did
    notification,               \* the last alert_history row and its e-mail
    stats,                      \* camera_health_summary: the counters and averages
    camera_health_log,          \* camera_health_log rows of each camera
    camera_downtime_log,        \* camera_downtime_log rows of each camera
    last_log,                   \* how each camera's last log_health_check went
    outage,                     \* the checks of each camera that were not persisted
    batch_index,                \* where the loop of check_all_cameras is
    batch_outcome,              \* what the current batch did with each configured camera
    rule_eval,                  \* the last evaluation of a rule against the tables
    alert_history,              \* alert_history rows, by id
    api_response,               \* the last answer of an /api/alerts/history request
    lock,                       \* the thread inside 'with self.lock', or "free"
    lock_pc,                    \* where each thread is in check_all_cameras / get_all_camera_status
    lock_did,                   \* what each thread's last statement did, and under the lock or not
    scheduler,                  \* ReportScheduler: its loop's clock (seconds) and last sent times
    listing,                    \* the last /api/cameras/list request and its response
    engine,                     \* AlertEngine.running, and the start() calls it has ignored
    health_statistics,          \* what get_health_statistics last returned
    background                  \* HealthCheckManager.running, check_thread and the
                                \* position of every thread start_background_checks started

threadVars == <<pc, args, reboot_result>>
remediationHistory == <<reboots, cooldown_started, operator_clear>>
engineVars == <<store_up, conn, engine_pc, cycles, cycle_read_rules, rule_queue,
                camera_queue, skipped, triggered_at, last_eval, notification>>

storeVars == <<stats, camera_health_log, camera_downtime_log, last_log>>
batchVars == <<outage, batch_index, batch_outcome>>
serviceVars == <<alert_history, api_response, lock, lock_pc, lock_did, scheduler,
                 listing, engine, health_statistics, background>>
detailVars == <<storeVars, batchVars, rule_eval, serviceVars>>

vars == <<now, advances, alert_threshold, db, health_cache, previous_status,
          last_alert_time, alert_count_today, last_reset_date,
          cameras_under_remediation, last_ticket_time, last_call, incident,
          closed_incident, threadVars, ticket_id, remediationHistory, probe,
          engineVars, detailVars>>

\* everything but the clock and the rule evaluation engine
monitorVars == <<advances, alert_threshold, db, health_cache, previous_status,
                 last_alert_time, alert_count_today, last_reset_date,
                 cameras_under_remediation, last_ticket_time, last_call,
                 incident, closed_incident, threadVars, ticket_id,
                 remediationHistory, probe, detailVars>>

alertVars == <<previous_status, last_alert_time, alert_count_today, last_reset_date>>
remediationVars == <<cameras_under_remediation, last_ticket_time>>
historyVars == <<last_call, incident, closed_incident>>

NoRow == [current_status |-> "norow", consecutive_failures |-> 0]
NoEntry == [status |-> "noentry", consecutive_failures |-> None]
NoCall == [status |-> "nocall", failures |-> None, offline_alert |-> FALSE,
           recovery_alert |-> FALSE, reboot |-> FALSE]
NoIncident == [open |-> FALSE, checks |-> 0, offline_alerts |-> 0]
NoClosed == [checks |-> 0, offline_alerts |-> None, recovery_alerts |-> None]

\* the scheduled batch and the batch started by POST /api/cameras/test-all
Threads == {"background", "manual"}
\* the ticket ids reboot_camera returns; NoTicket is None or a missing key
TicketIds == {"created", "skipped"}
NoTicket == "none"
NoArgs == [camera_name |-> "nocamera", status |-> "nostatus",
           consecutive_failures |-> None]
NoResult == [raised |-> FALSE, success |-> FALSE, ticket_id |-> "noresult"]
NoProbe == [connectivity_ok |-> FALSE, media_ok |-> FALSE, ping_success |-> FALSE,
            snapshot_success |-> FALSE, status |-> "unknown",
            check_type |-> "nocheck"]

(***************************************************************************)
(* The rule evaluation engine (alert_engine.py): its cameras, the enabled  *)
(* rows of alert_rules in the order the engine reads them, and the rows of *)
(* alert_history.                                                          *)
(***************************************************************************)
engine_check_interval == 300
rate_limit_minutes == 60
evaluation_window_minutes == 30
MaxCycles == 2

\* list(self.cameras.keys())
EngineCameras == <<"CAM-1", "CAM-2">>

\* one rule of each type, created with the defaults of POST /api/alerts/rules
AlertRules ==
    << [id |-> 1, rule_type |-> "sla_violation", applies_to |-> "all",
        camera_name |-> "", suppress_during_maintenance |-> TRUE,
        rate_limit_minutes |-> rate_limit_minutes,
        threshold_value |-> 95,
        evaluation_window_minutes |-> evaluation_window_minutes],
       [id |-> 2, rule_type |-> "extended_downtime", applies_to |-> "camera",
        camera_name |-> "CAM-1", suppress_during_maintenance |-> TRUE,
        rate_limit_minutes |-> rate_limit_minutes,
        threshold_value |-> 30,
        evaluation_window_minutes |-> evaluation_window_minutes],
       [id |-> 3, rule_type |-> "recovery", applies_to |-> "camera",
        camera_name |-> "CAM-1", suppress_during_maintenance |-> TRUE,
        rate_limit_minutes |-> rate_limit_minutes,
        threshold_value |-> None,
        evaluation_window_minutes |-> evaluation_window_minutes] >>

\* AlertEngine._get_cameras_for_rule (no rule is scoped to a group)
GetCamerasForRule(rule) ==
    IF rule.applies_to = "camera" /\ rule.camera_name # ""
    THEN <<rule.camera_name>>
    ELSE EngineCameras

\* the (rule id, camera) pairs a cycle evaluates
Pairs ==
    {p \in (DOMAIN AlertRules) \X {EngineCameras[i] : i \in DOMAIN EngineCameras} :
        \E i \in DOMAIN GetCamerasForRule(AlertRules[p[1]]) :
            GetCamerasForRule(AlertRules[p[1]])[i] = p[2]}

NoEval == [rule_id |-> 0, camera_name |-> "", in_maintenance |-> FALSE,
           alert_created |-> FALSE, previous |-> None]
NoNotification == [rule_id |-> 0, camera_name |-> "", notification_sent |-> 0,
                   delivery |-> "none"]

(***************************************************************************)
(* The tables behind the health checks: the counters and averages of       *)
(* camera_health_summary, the rows of camera_health_log and of             *)
(* camera_downtime_log.  Latencies are milliseconds, uptime_percentage is  *)
(* DECIMAL(5,2) and is counted in hundredths of a percent.                 *)
(***************************************************************************)
MaxChecks == 3

\* what ping_camera and test_snapshot measure
ResponseTimes == {0, 10}

NoStats == [total_checks |-> 0, successful_checks |-> 0,
            uptime_percentage |-> None, avg_ping_ms |-> None,
            avg_snapshot_ms |-> None]
NoLog == [outcome |-> "none"]
NoOutage == [persisted |-> TRUE, status |-> "unknown", streak |-> 0]

\* self.camera_config: CAM-2 has no address
camera_config ==
    << [name |-> "CAM-1", ip |-> TRUE],
       [name |-> "CAM-2", ip |-> FALSE],
       [name |-> "CAM-3", ip |-> TRUE] >>

ConfiguredNames == {camera_config[i].name : i \in DOMAIN camera_config}

\* the background check loop and a request that reads the status of all
\* cameras
LockThreads == {"loop", "reader"}
MaxRounds == 2
\* threads start_background_checks may start
MaxLoops == 2
Idle == [at |-> "idle", rounds |-> 0, todo |-> {}, camera_name |-> "", status |-> "",
         result |-> [c \in Cameras |-> NoEntry]]

NoAlertRow == [status |-> "norow", triggered_at |-> None,
               acknowledged_at |-> None, acknowledged_by |-> "",
               resolved_at |-> None, resolved_by |-> ""]

NoRuleEval == [rule_id |-> 0, threshold_value |-> None, at |-> None,
               in_maintenance |-> FALSE, previous |-> None,
               answered |-> FALSE, alert_created |-> FALSE,
               trigger_value |-> None]

Date(t) == t \div MinutesPerDay

(***************************************************************************)
(* HealthCheckManager.log_health_check: the MERGE into                     *)
(* camera_health_summary.                                                  *)
(***************************************************************************)
\* the MERGE counting only an offline check as a failure
LogHealthCheck_DegradedIsSuccess(row, status) ==
    [current_status |-> status,
     consecutive_failures |->
        IF row = NoRow
        THEN (IF status = "offline" THEN 1 ELSE 0)
        ELSE (IF status = "offline" THEN row.consecutive_failures + 1 ELSE 0)]

LogHealthCheck(row, status) ==
    [current_status |-> status,
     consecutive_failures |->
        IF row = NoRow
        THEN (IF status \in Bad THEN 1 ELSE 0)
        ELSE (IF status \in Bad THEN row.consecutive_failures + 1 ELSE 0)]

\* CAST(100.0 * successful_checks / total_checks AS DECIMAL(5,2)): rounded to
\* the nearest hundredth
UptimePercentage(successful_checks, total_checks) ==
    (2 * 10000 * successful_checks + total_checks) \div (2 * total_checks)

\* the CASE that updates avg_ping_ms and avg_snapshot_ms (INT columns)
Smoothed(avg, response_ms) ==
    IF avg = None THEN response_ms
    ELSE IF response_ms # None THEN (avg * 7 + response_ms * 3) \div 10
    ELSE avg

\* the MERGE computing uptime_percentage before it counts the new check
MergeStats_UptimeOfEarlierChecks(s, result) ==
    [total_checks |-> s.total_checks + 1,
     successful_checks |->
        s.successful_checks + (IF result.status = "online" THEN 1 ELSE 0),
     uptime_percentage |->
        UptimePercentage(s.successful_checks,
                         IF s.total_checks = 0 THEN 1 ELSE s.total_checks),
     avg_ping_ms |-> Smoothed(s.avg_ping_ms, result.ping_response_ms),
     avg_snapshot_ms |-> Smoothed(s.avg_snapshot_ms, result.snapshot_response_ms)]

\* the MERGE: the counters, the averages and uptime_percentage
MergeStats(s, result) ==
    [total_checks |-> s.total_checks + 1,
     successful_checks |->
        s.successful_checks + (IF result.status = "online" THEN 1 ELSE 0),
     uptime_percentage |->
        UptimePercentage(
            s.successful_checks + (IF result.status = "online" THEN 1 ELSE 0),
            s.total_checks + 1),
     avg_ping_ms |-> Smoothed(s.avg_ping_ms, result.ping_response_ms),
     avg_snapshot_ms |-> Smoothed(s.avg_snapshot_ms, result.snapshot_response_ms)]

\* how a call of log_health_check can end
LogOutcomes ==
    {"committed", "no_connection", "insert_raises", "merge_raises", "commit_raises"}

\* the INSERT taking effect at once, as on a connection with autocommit
KeepsEvent_Autocommit(outcome) ==
    outcome \notin {"no_connection", "insert_raises"}

\* the connection is opened without autocommit: the INSERT into
\* camera_health_log and the MERGE are kept only by conn.commit()
KeepsEvent(outcome) ==
    outcome = "committed"

KeepsSummary(outcome) ==
    outcome = "committed"

\* SUM(CASE WHEN status = 'online' THEN 1 ELSE 0 END) over rows of the log
OnlineEvents(log) ==
    Cardinality({i \in DOMAIN log : log[i].status = "online"})

\* the rows of a camera WHERE downtime_end IS NULL
OpenIntervals(camera_name) ==
    {r \in camera_downtime_log[camera_name] : r.downtime_end = None}

(***************************************************************************)
(* AlertManager.check_and_send_alerts                                      *)
(***************************************************************************)
\* the threshold test degraded to "has failed at all"
ThresholdReached_AnyFailure(consecutive_failures) ==
    consecutive_failures >= 1

ThresholdReached(consecutive_failures) ==
    consecutive_failures >= alert_threshold

\* the transition test without 'unknown' in the list of previous statuses
OfflineAlertDue_AlertsFromUnknown(previous, current_status, consecutive_failures) ==
    /\ previous # current_status
    /\ current_status \in {"offline", "degraded"}
    /\ previous \notin {"offline", "degraded"}
    /\ consecutive_failures >= alert_threshold

OfflineAlertDue(previous, current_status, consecutive_failures) ==
    /\ previous # current_status
    /\ current_status \in {"offline", "degraded"}
    /\ previous \notin {"offline", "degraded", "unknown"}
    /\ ThresholdReached(consecutive_failures)

\* the recovery test that forgets the degraded status
RecoveryAlertDue_OfflineOnly(previous, current_status) ==
    /\ previous # current_status
    /\ current_status = "online"
    /\ previous \in {"offline"}

RecoveryAlertDue(previous, current_status) ==
    /\ previous # current_status
    /\ ~ (current_status \in {"offline", "degraded"}
            /\ previous \notin {"offline", "degraded", "unknown"})
    /\ current_status = "online"
    /\ previous \in {"offline", "degraded"}

\* _send_offline_alert sends (and counts) only when recipients are configured
OfflineAlertSent(previous, current_status, consecutive_failures) ==
    OfflineAlertDue(previous, current_status, consecutive_failures) /\ maintenance_emails

RecoveryAlertSent(previous, current_status) ==
    RecoveryAlertDue(previous, current_status) /\ maintenance_emails

(***************************************************************************)
(* AlertManager._can_send_alert: defined by the class, called by nothing.  *)
(***************************************************************************)
CanSendAlert(camera_name) ==
    LET count_today == IF Date(now) > last_reset_date THEN 0
                       ELSE alert_count_today[camera_name]
    IN  /\ ~ (count_today >= max_daily_alerts)
        /\ ~ (/\ last_alert_time[camera_name] # None
              /\ (now - last_alert_time[camera_name]) * 60 < alert_cooldown * 60)

(***************************************************************************)
(* RemediationManager.check_and_remediate / _perform_remediation           *)
(***************************************************************************)
InTicketCooldown(camera_name) ==
    /\ last_ticket_time[camera_name] # None
    /\ (now - last_ticket_time[camera_name]) * 60 < ticket_cooldown_hours * 3600

RebootThresholdReached(consecutive_failures) ==
    consecutive_failures >= auto_reboot_threshold

\* the remediation decision without the ticket cooldown test
PerformsRemediation_NoCooldownTest(camera_name, status, consecutive_failures) ==
    /\ auto_reboot_enabled
    /\ status # "online"
    /\ camera_name \notin cameras_under_remediation
    /\ consecutive_failures >= auto_reboot_threshold
    /\ reboot_callback

PerformsRemediation(camera_name, status, consecutive_failures) ==
    /\ auto_reboot_enabled
    /\ status # "online"
    /\ ~ InTicketCooldown(camera_name)
    /\ camera_name \notin cameras_under_remediation
    /\ RebootThresholdReached(consecutive_failures)
    /\ reboot_callback

\* the recovery branch taken only after the cooldown test
ClearsOnRecovery_AfterCooldownTest(camera_name, status) ==
    auto_reboot_enabled /\ status = "online" /\ ~ InTicketCooldown(camera_name)

ClearsOnRecovery(camera_name, status) ==
    auto_reboot_enabled /\ status = "online"

(***************************************************************************)
(* The two controllers are handed status[c] and failures[c] for every      *)
(* camera: the loops at the end of check_all_cameras.                      *)
(***************************************************************************)
NotifyControllers(status, failures) ==
    /\ previous_status' = [c \in Cameras |-> status[c]]
    /\ last_alert_time' = [c \in Cameras |->
            IF OfflineAlertDue(previous_status[c], status[c], failures[c])
            THEN now ELSE last_alert_time[c]]
    /\ alert_count_today' = [c \in Cameras |->
            IF OfflineAlertSent(previous_status[c], status[c], failures[c])
            THEN alert_count_today[c] + 1 ELSE alert_count_today[c]]
    /\ UNCHANGED last_reset_date
    /\ cameras_under_remediation' =
            {c \in Cameras :
                \/ PerformsRemediation(c, status[c], failures[c])
                \/ (c \in cameras_under_remediation /\ ~ ClearsOnRecovery(c, status[c]))}
    /\ last_ticket_time' = [c \in Cameras |->
            IF PerformsRemediation(c, status[c], failures[c])
            THEN now ELSE last_ticket_time[c]]
    /\ last_call' = [c \in Cameras |->
            [status |-> status[c],
             failures |-> failures[c],
             offline_alert |-> OfflineAlertSent(previous_status[c], status[c], failures[c]),
             recovery_alert |-> RecoveryAlertSent(previous_status[c], status[c]),
             reboot |-> PerformsRemediation(c, status[c], failures[c])]]
    /\ incident' = [c \in Cameras |->
            IF status[c] \in Bad
            THEN IF incident[c].open
                 THEN [incident[c] EXCEPT
                        !.checks = @ + 1,
                        !.offline_alerts = @ +
                            (IF OfflineAlertSent(previous_status[c], status[c], failures[c])
                             THEN 1 ELSE 0)]
                 ELSE IF previous_status[c] = "online"
                      THEN [open |-> TRUE, checks |-> 1,
                            offline_alerts |->
                                IF OfflineAlertSent(previous_status[c], status[c], failures[c])
                                THEN 1 ELSE 0]
                      ELSE incident[c]
            ELSE NoIncident]
    /\ closed_incident' = [c \in Cameras |->
            IF status[c] = "online" /\ incident[c].open
            THEN [checks |-> incident[c].checks,
                  offline_alerts |-> incident[c].offline_alerts,
                  recovery_alerts |->
                      IF RecoveryAlertSent(previous_status[c], status[c]) THEN 1 ELSE 0]
            ELSE closed_incident[c]]

(***************************************************************************)
(* HealthCheckManager.get_all_camera_status as check_all_cameras calls it: *)
(* the cache is not empty after the loop, so the cached dictionaries       *)
(* themselves are returned and the store is not read.                      *)
(***************************************************************************)
CacheAfterLoop(result) ==
    [c \in Cameras |-> [status |-> result[c],
                        consecutive_failures |-> health_cache[c].consecutive_failures]]

\* cam.get('consecutive_failures', 0) on the dictionary that is being updated
CachedFailures(entry) ==
    IF entry.consecutive_failures = None THEN 0 ELSE entry.consecutive_failures

CacheAfterRefresh(result) ==
    [c \in Cameras |-> [status |-> result[c],
                        consecutive_failures |-> CachedFailures(CacheAfterLoop(result)[c])]]

(***************************************************************************)
(* HealthCheckManager.check_all_cameras: one batch, scheduled or manual.   *)
(***************************************************************************)
CheckAllCameras ==
    \E result \in [Cameras -> ProbeStatus] :
        /\ \A c \in Cameras :
              /\ result[c] \in Bad => db[c].consecutive_failures < MaxFailures
              /\ alert_count_today[c] < MaxAlerts
        /\ db' = [c \in Cameras |-> LogHealthCheck(db[c], result[c])]
        /\ health_cache' = CacheAfterRefresh(result)
        /\ NotifyControllers(result,
                [c \in Cameras |-> CacheAfterRefresh(result)[c].consecutive_failures])
        /\ UNCHANGED <<now, advances, alert_threshold>>
        /\ UNCHANGED <<threadVars, ticket_id, remediationHistory>>
        /\ UNCHANGED <<probe, engineVars, detailVars>>

(***************************************************************************)
(* A batch while the store may be out of reach: log_health_check returns   *)
(* False for the cameras whose check is not persisted, the cache is        *)
(* updated all the same and the controllers are called as in any batch.    *)
(***************************************************************************)
CheckAllCamerasOutage ==
    \E result \in [Cameras -> ProbeStatus], persisted \in [Cameras -> BOOLEAN] :
        /\ \A c \in Cameras :
              /\ result[c] \in Bad => outage[c].streak < MaxFailures
              /\ result[c] \in Bad => db[c].consecutive_failures < MaxFailures
              /\ alert_count_today[c] < MaxAlerts
        /\ db' = [c \in Cameras |->
                    IF persisted[c] THEN LogHealthCheck(db[c], result[c]) ELSE db[c]]
        /\ health_cache' = CacheAfterRefresh(result)
        /\ NotifyControllers(result,
                [c \in Cameras |-> CacheAfterRefresh(result)[c].consecutive_failures])
        /\ outage' = [c \in Cameras |->
                    [persisted |-> persisted[c],
                     status |-> result[c],
                     streak |-> IF result[c] \in Bad THEN outage[c].streak + 1 ELSE 0]]
        /\ UNCHANGED <<now, advances, alert_threshold>>
        /\ UNCHANGED <<threadVars, ticket_id, remediationHistory>>
        /\ UNCHANGED <<probe, engineVars, storeVars, batch_index, batch_outcome,
                       rule_eval, serviceVars>>

(***************************************************************************)
(* The controllers driven as their contract describes: every check is      *)
(* logged and the controllers are handed the count that log_health_check   *)
(* has just written.                                                       *)
(***************************************************************************)
FeedCheck ==
    \E result \in [Cameras -> ProbeStatus] :
        /\ \A c \in Cameras :
              /\ result[c] \in Bad => db[c].consecutive_failures < MaxFailures
              /\ alert_count_today[c] < MaxAlerts
        /\ db' = [c \in Cameras |-> LogHealthCheck(db[c], result[c])]
        /\ NotifyControllers(result,
                [c \in Cameras |-> LogHealthCheck(db[c], result[c]).consecutive_failures])
        /\ UNCHANGED <<now, advances, alert_threshold, health_cache>>
        /\ UNCHANGED <<threadVars, ticket_id, remediationHistory>>
        /\ UNCHANGED <<probe, engineVars, detailVars>>

(***************************************************************************)
(* RemediationManager.clear_remediation                                    *)
(***************************************************************************)
\* clear_remediation that never touches the ticket cooldown
ClearRemediation_GuardOnly(camera_name, clear_ticket_cooldown) ==
    /\ cameras_under_remediation' = cameras_under_remediation \ {camera_name}
    /\ last_ticket_time' = last_ticket_time
    /\ ticket_id' = [ticket_id EXCEPT ![camera_name] = NoTicket]
    /\ UNCHANGED <<now, advances, alert_threshold, db, health_cache,
                   alertVars, historyVars, threadVars>>
    /\ UNCHANGED <<probe, engineVars, detailVars>>

ClearRemediation(camera_name, clear_ticket_cooldown) ==
    /\ cameras_under_remediation' = cameras_under_remediation \ {camera_name}
    /\ last_ticket_time' =
            IF clear_ticket_cooldown /\ last_ticket_time[camera_name] # None
            THEN [last_ticket_time EXCEPT ![camera_name] = None]
            ELSE last_ticket_time
    /\ ticket_id' = [ticket_id EXCEPT ![camera_name] = NoTicket]
    /\ UNCHANGED <<now, advances, alert_threshold, db, health_cache,
                   alertVars, historyVars, threadVars>>
    /\ UNCHANGED <<probe, engineVars, detailVars>>

\* DELETE /api/health/remediation/<camera_name>
ClearRemediationRequest ==
    \E c \in Cameras, clear_ticket_cooldown \in BOOLEAN :
        /\ ClearRemediation(c, clear_ticket_cooldown)
        /\ UNCHANGED remediationHistory

(***************************************************************************)
(* The wall clock.                                                         *)
(***************************************************************************)
Advance ==
    \E d \in TimeSteps :
        /\ advances < MaxAdvance
        /\ now' = now + d
        /\ advances' = advances + 1
        /\ UNCHANGED <<alert_threshold, db, health_cache,
                       alertVars, remediationVars, historyVars>>
        /\ UNCHANGED <<threadVars, ticket_id, remediationHistory>>
        /\ UNCHANGED <<probe, engineVars, detailVars>>

(***************************************************************************)
(* Process start: the store holds whatever earlier runs left in it, the    *)
(* managers are freshly constructed and start_background_checks has loaded *)
(* the cache from the store.                                               *)
(***************************************************************************)
StoredRows ==
    {NoRow, [current_status |-> "online", consecutive_failures |-> 0]}
    \cup [current_status : Bad, consecutive_failures : 1 .. MaxFailures]

LoadedCache(rows) ==
    [c \in Cameras |->
        IF rows[c] = NoRow THEN NoEntry
        ELSE [status |-> rows[c].current_status,
              consecutive_failures |-> rows[c].consecutive_failures]]

\* the freshly constructed managers and the store they find
Managers ==
    /\ now = 0
    /\ advances = 0
    /\ alert_threshold \in AlertThresholds
    /\ db \in [Cameras -> StoredRows]
    /\ previous_status = [c \in Cameras |-> "unknown"]
    /\ last_alert_time = [c \in Cameras |-> None]
    /\ alert_count_today = [c \in Cameras |-> 0]
    /\ last_reset_date = Date(now)
    /\ cameras_under_remediation = {}
    /\ last_ticket_time = [c \in Cameras |-> None]
    /\ last_call = [c \in Cameras |-> NoCall]
    /\ incident = [c \in Cameras |-> NoIncident]
    /\ closed_incident = [c \in Cameras |-> NoClosed]
    /\ pc = [t \in Threads |-> "idle"]
    /\ args = [t \in Threads |-> NoArgs]
    /\ reboot_result = [t \in Threads |-> NoResult]
    /\ ticket_id = [c \in Cameras |-> NoTicket]
    /\ reboots = [c \in Cameras |-> 0]
    /\ cooldown_started = [c \in Cameras |-> None]
    /\ operator_clear = [c \in Cameras |-> "none"]
    /\ probe = [c \in Cameras |-> NoProbe]
    /\ store_up = TRUE
    /\ conn = "none"
    /\ engine_pc = "connect"
    /\ cycles = 0
    /\ cycle_read_rules = FALSE
    /\ rule_queue = << >>
    /\ camera_queue = << >>
    /\ skipped = 0
    /\ triggered_at = [p \in Pairs |-> None]
    /\ last_eval = NoEval
    /\ notification = NoNotification
    /\ last_log = [c \in Cameras |-> NoLog]
    /\ outage = [c \in Cameras |->
                    [NoOutage EXCEPT !.streak = db[c].consecutive_failures]]
    /\ batch_index = 1
    /\ batch_outcome = [n \in ConfiguredNames |-> "pending"]
    /\ rule_eval = NoRuleEval
    /\ alert_history = << >>
    /\ api_response = [op |-> "none", code |-> 0,
                       before |-> NoAlertRow, after |-> NoAlertRow]
    /\ lock = "free"
    /\ lock_pc = [t \in LockThreads |-> Idle]
    /\ lock_did = [t \in LockThreads |-> [did |-> "none", held |-> FALSE]]
    /\ scheduler = [running |-> FALSE, at |-> 0, last_daily_report |-> None,
                    last_weekly_report |-> None, weekly_sent |-> {},
                    send_failed |-> FALSE]
    /\ listing = [requests |-> 0]
    /\ engine = [running |-> TRUE, ignored_starts |-> 0]
    /\ background = [running |-> FALSE, check_thread |-> 0,
                     loop |-> [t \in 1..MaxLoops |-> "none"]]
    /\ health_statistics = [total_cameras |-> 0, online |-> 0, offline |-> 0,
                            degraded |-> 0, unknown |-> 0]

\* no check has been logged and no downtime has been recorded
NoHistory ==
    /\ stats = [c \in Cameras |-> NoStats]
    /\ camera_health_log = [c \in Cameras |-> << >>]
    /\ camera_downtime_log = [c \in Cameras |-> {}]

Init ==
    /\ Managers
    /\ NoHistory
    /\ health_cache = LoadedCache(db)

Next ==
    \/ CheckAllCameras
    \/ ClearRemediationRequest
    \/ Advance

Spec == Init /\ [][Next]_vars

NextFeed ==
    \/ FeedCheck
    \/ ClearRemediationRequest
    \/ Advance

\* the controllers on their own: no HealthCheckManager cache
InitFeed ==
    /\ Managers
    /\ NoHistory
    /\ health_cache = [c \in Cameras |-> NoEntry]

SpecFeed == InitFeed /\ [][NextFeed]_vars

(***************************************************************************)
(* RemediationManager statement by statement.  A thread is a run of        *)
(* check_all_cameras that has reached its remediation loop; the manager's  *)
(* two dictionaries are shared by the threads and are not locked.          *)
(***************************************************************************)
\* the counts the loop hands over: one below the threshold and the threshold
HandedFailures == {auto_reboot_threshold - 1, auto_reboot_threshold}

HandedArgs ==
    [camera_name : Cameras, status : ProbeStatus,
     consecutive_failures : HandedFailures]

\* reboot_camera returns a dictionary or raises; the MIMS ticket is created
\* whatever the outcome of the reboot is
Raised == [raised |-> TRUE, success |-> FALSE, ticket_id |-> NoTicket]
RebootResults ==
    [raised : {FALSE}, success : BOOLEAN, ticket_id : TicketIds \cup {NoTicket}]
    \cup {Raised}

\* the loop at the end of check_all_cameras calls check_and_remediate
CallCheckAndRemediate(t) ==
    /\ pc[t] = "idle"
    /\ \E a \in HandedArgs : args' = [args EXCEPT ![t] = a]
    /\ pc' = [pc EXCEPT ![t] = "check"]
    /\ UNCHANGED <<now, advances, alert_threshold, db, health_cache, alertVars,
                   remediationVars, historyVars, reboot_result, ticket_id,
                   remediationHistory>>
    /\ UNCHANGED <<probe, engineVars, detailVars>>

\* check_and_remediate up to its call of _perform_remediation
CheckAndRemediate(t) ==
    LET camera_name == args[t].camera_name
        status == args[t].status
        consecutive_failures == args[t].consecutive_failures
    IN  /\ pc[t] = "check"
        /\ cameras_under_remediation' =
                IF ClearsOnRecovery(camera_name, status)
                THEN cameras_under_remediation \ {camera_name}
                ELSE cameras_under_remediation
        /\ ticket_id' =
                IF ClearsOnRecovery(camera_name, status)
                THEN [ticket_id EXCEPT ![camera_name] = NoTicket]
                ELSE ticket_id
        /\ pc' = [pc EXCEPT ![t] =
                IF PerformsRemediation(camera_name, status, consecutive_failures)
                THEN "ticket_time" ELSE "idle"]
        /\ args' = [args EXCEPT ![t] =
                IF PerformsRemediation(camera_name, status, consecutive_failures)
                THEN args[t] ELSE NoArgs]
        /\ reboots' =
                IF ClearsOnRecovery(camera_name, status)
                THEN [reboots EXCEPT ![camera_name] = 0]
                ELSE reboots
        /\ operator_clear' = [operator_clear EXCEPT ![camera_name] =
                IF /\ operator_clear[camera_name] # "none"
                   /\ PerformsRemediation(camera_name, status, consecutive_failures)
                THEN "allowed" ELSE "none"]
        /\ UNCHANGED <<now, advances, alert_threshold, db, health_cache,
                       alertVars, last_ticket_time, historyVars, reboot_result,
                       cooldown_started>>
        /\ UNCHANGED <<probe, engineVars, detailVars>>

\* _perform_remediation: self.last_ticket_time[camera_name] = datetime.now()
SetTicketTime(t) ==
    /\ pc[t] = "ticket_time"
    /\ last_ticket_time' = [last_ticket_time EXCEPT ![args[t].camera_name] = now]
    /\ pc' = [pc EXCEPT ![t] = "mark"]
    /\ operator_clear' = [operator_clear EXCEPT ![args[t].camera_name] = "none"]
    /\ cooldown_started' = [cooldown_started EXCEPT ![args[t].camera_name] = now]
    /\ UNCHANGED <<now, advances, alert_threshold, db, health_cache, alertVars,
                   cameras_under_remediation, historyVars, args, reboot_result,
                   ticket_id, reboots>>
    /\ UNCHANGED <<probe, engineVars, detailVars>>

\* _perform_remediation: self.cameras_under_remediation[camera_name] = {...}
MarkUnderRemediation(t) ==
    /\ pc[t] = "mark"
    /\ cameras_under_remediation' =
            cameras_under_remediation \cup {args[t].camera_name}
    /\ ticket_id' = [ticket_id EXCEPT ![args[t].camera_name] = NoTicket]
    /\ pc' = [pc EXCEPT ![t] = "reboot"]
    /\ operator_clear' = [operator_clear EXCEPT ![args[t].camera_name] = "none"]
    /\ UNCHANGED <<now, advances, alert_threshold, db, health_cache, alertVars,
                   last_ticket_time, historyVars, args, reboot_result, reboots,
                   cooldown_started>>
    /\ UNCHANGED <<probe, engineVars, detailVars>>

\* _perform_remediation: result = self.reboot_callback(...)
RebootCallback(t) ==
    /\ pc[t] = "reboot"
    /\ \E r \in RebootResults : reboot_result' = [reboot_result EXCEPT ![t] = r]
    /\ pc' = [pc EXCEPT ![t] = "reboot_result"]
    /\ reboots' = [reboots EXCEPT ![args[t].camera_name] = @ + 1]
    /\ UNCHANGED <<now, advances, alert_threshold, db, health_cache, alertVars,
                   remediationVars, historyVars, args, ticket_id,
                   operator_clear, cooldown_started>>
    /\ UNCHANGED <<probe, engineVars, detailVars>>

\* the ticket id is stored when the reboot succeeded and returned one; the
\* store raises KeyError, which is caught, when the guard is gone by then
RecordsTicket(camera_name, r) ==
    /\ ~ r.raised
    /\ r.success
    /\ r.ticket_id # NoTicket
    /\ camera_name \in cameras_under_remediation

\* the rest of _perform_remediation dropping both guards when the reboot
\* did not succeed
HandleResult_ForgetsFailedReboot(t) ==
    LET camera_name == args[t].camera_name
        failed == reboot_result[t].raised \/ ~ reboot_result[t].success
    IN  /\ pc[t] = "reboot_result"
        /\ ticket_id' =
                IF RecordsTicket(camera_name, reboot_result[t])
                THEN [ticket_id EXCEPT ![camera_name] = reboot_result[t].ticket_id]
                ELSE ticket_id
        /\ cameras_under_remediation' =
                IF failed THEN cameras_under_remediation \ {camera_name}
                ELSE cameras_under_remediation
        /\ last_ticket_time' =
                IF failed THEN [last_ticket_time EXCEPT ![camera_name] = None]
                ELSE last_ticket_time
        /\ pc' = [pc EXCEPT ![t] = "idle"]
        /\ args' = [args EXCEPT ![t] = NoArgs]
        /\ UNCHANGED reboot_result
        /\ UNCHANGED <<now, advances, alert_threshold, db, health_cache,
                       alertVars, historyVars, remediationHistory>>
        /\ UNCHANGED <<probe, engineVars, detailVars>>

\* _perform_remediation after the reboot action has returned or raised
HandleResult(t) ==
    LET camera_name == args[t].camera_name
    IN  /\ pc[t] = "reboot_result"
        /\ ticket_id' =
                IF RecordsTicket(camera_name, reboot_result[t])
                THEN [ticket_id EXCEPT ![camera_name] = reboot_result[t].ticket_id]
                ELSE ticket_id
        /\ pc' = [pc EXCEPT ![t] = "idle"]
        /\ args' = [args EXCEPT ![t] = NoArgs]
        /\ UNCHANGED reboot_result
        /\ UNCHANGED <<now, advances, alert_threshold, db, health_cache,
                       alertVars, remediationVars, historyVars,
                       remediationHistory>>
        /\ UNCHANGED <<probe, engineVars, detailVars>>

RemediationStep(t) ==
    \/ CallCheckAndRemediate(t)
    \/ CheckAndRemediate(t)
    \/ SetTicketTime(t)
    \/ MarkUnderRemediation(t)
    \/ RebootCallback(t)
    \/ HandleResult(t)

\* DELETE /api/health/remediation/<camera_name> while a batch may be running
OperatorClear ==
    \E c \in Cameras, clear_ticket_cooldown \in BOOLEAN :
        /\ ClearRemediation(c, clear_ticket_cooldown)
        /\ operator_clear' = [operator_clear EXCEPT ![c] =
                IF clear_ticket_cooldown THEN "cooldown" ELSE "guard"]
        /\ reboots' = [reboots EXCEPT ![c] = 0]
        /\ UNCHANGED cooldown_started

\* RemediationManager.__init__ in a new process: both dictionaries are empty
Restart ==
    /\ cameras_under_remediation' = {}
    /\ last_ticket_time' = [c \in Cameras |-> None]
    /\ ticket_id' = [c \in Cameras |-> NoTicket]
    /\ pc' = [t \in Threads |-> "idle"]
    /\ args' = [t \in Threads |-> NoArgs]
    /\ reboot_result' = [t \in Threads |-> NoResult]
    /\ reboots' = [c \in Cameras |-> 0]
    /\ operator_clear' = [c \in Cameras |-> "none"]
    /\ UNCHANGED <<now, advances, alert_threshold, db, health_cache, alertVars,
                   historyVars, cooldown_started>>
    /\ UNCHANGED <<probe, engineVars, detailVars>>

\* the remediation manager with an empty store behind it
InitRemediation ==
    /\ Managers
    /\ NoHistory
    /\ db = [c \in Cameras |-> NoRow]
    /\ health_cache = LoadedCache(db)

\* the scheduled batch alone, across restarts of the process
NextRemediation ==
    \/ RemediationStep("background")
    \/ Advance
    \/ Restart

SpecRemediation == InitRemediation /\ [][NextRemediation]_vars

\* the scheduled batch and the operator
NextOperator ==
    \/ RemediationStep("background")
    \/ OperatorClear
    \/ Advance

SpecOperator == InitRemediation /\ [][NextOperator]_vars

\* the scheduled batch and a batch started by POST /api/cameras/test-all
NextThreads ==
    \/ \E t \in Threads : RemediationStep(t)
    \/ Advance

SpecThreads == InitRemediation /\ [][NextThreads]_vars

(***************************************************************************)
(* The camera loop of check_all_cameras, one pass at a time.  A camera     *)
(* with an address is probed and logged inside a try block of its own:     *)
(* the probe raises, or the check is made and log_health_check persists it *)
(* (the outcome is the status) or returns False (unlogged).                *)
(***************************************************************************)
LoopOutcomes == ProbeStatus \cup {"unlogged", "raised"}

\* the loop inside one try block: an exception ends the batch
CheckNextCamera_TryAroundLoop ==
    /\ batch_index \in DOMAIN camera_config
    /\ \E o \in LoopOutcomes :
          /\ batch_outcome' = [batch_outcome EXCEPT ![camera_config[batch_index].name] =
                                IF camera_config[batch_index].ip THEN o ELSE "no_ip"]
          /\ batch_index' = IF camera_config[batch_index].ip /\ o = "raised"
                            THEN Len(camera_config) + 1 ELSE batch_index + 1
    /\ UNCHANGED <<now, alert_threshold, advances, db, health_cache, alertVars,
                   remediationVars, historyVars, threadVars, ticket_id,
                   remediationHistory, probe>>
    /\ UNCHANGED <<engineVars, storeVars, outage, rule_eval, serviceVars>>

CheckNextCamera ==
    /\ batch_index \in DOMAIN camera_config
    /\ \E o \in LoopOutcomes :
          batch_outcome' = [batch_outcome EXCEPT ![camera_config[batch_index].name] =
                                IF camera_config[batch_index].ip THEN o ELSE "no_ip"]
    /\ batch_index' = batch_index + 1
    /\ UNCHANGED <<now, alert_threshold, advances, db, health_cache, alertVars,
                   remediationVars, historyVars, threadVars, ticket_id,
                   remediationHistory, probe>>
    /\ UNCHANGED <<engineVars, storeVars, outage, rule_eval, serviceVars>>

\* the loop is over; the next batch starts with the first camera
FinishBatch ==
    /\ batch_index = Len(camera_config) + 1
    /\ batch_index' = 1
    /\ batch_outcome' = [n \in ConfiguredNames |-> "pending"]
    /\ UNCHANGED <<now, alert_threshold, advances, db, health_cache, alertVars,
                   remediationVars, historyVars, threadVars, ticket_id,
                   remediationHistory, probe>>
    /\ UNCHANGED <<engineVars, storeVars, outage, rule_eval, serviceVars>>

NextBatch ==
    \/ CheckNextCamera
    \/ FinishBatch
    \/ Advance

SpecBatch == InitRemediation /\ [][NextBatch]_vars

\* batches while the store comes and goes
NextOutage ==
    \/ CheckAllCamerasOutage
    \/ Advance

SpecOutage == InitRemediation /\ [][NextOutage]_vars


(***************************************************************************)
(* HealthCheckManager.check_camera_health, and the check as                *)
(* POST /api/camera/test and a batch run it: the probe, then               *)
(* log_health_check.                                                       *)
(***************************************************************************)
\* the two branches for a failed snapshot and a failed ping swapped
DerivedStatus_BranchesSwapped(ping_success, snapshot_success) ==
    IF ping_success /\ snapshot_success THEN "online"
    ELSE IF ping_success /\ ~ snapshot_success THEN "offline"
    ELSE "degraded"

DerivedStatus(ping_success, snapshot_success) ==
    IF ping_success /\ snapshot_success THEN "online"
    ELSE IF ping_success /\ ~ snapshot_success THEN "degraded"
    ELSE "offline"

\* connectivity_ok: port 80 accepts a connection; media_ok: the camera would
\* serve a snapshot; the snapshot is requested only after a successful ping
CheckCameraHealth(connectivity_ok, media_ok, check_type) ==
    LET ping_success == connectivity_ok
        snapshot_success == IF ping_success THEN media_ok ELSE FALSE
    IN  [connectivity_ok |-> connectivity_ok,
         media_ok |-> media_ok,
         ping_success |-> ping_success,
         snapshot_success |-> snapshot_success,
         status |-> DerivedStatus(ping_success, snapshot_success),
         check_type |-> check_type]

CheckAndLog(camera_name, check_type) ==
    \E connectivity_ok \in BOOLEAN, media_ok \in BOOLEAN,
       ping_time \in ResponseTimes, snapshot_time \in ResponseTimes,
       outcome \in LogOutcomes :
        LET check == CheckCameraHealth(connectivity_ok, media_ok, check_type)
            result == [check_timestamp |-> now,
                       status |-> check.status,
                       ping_response_ms |-> ping_time,
                       snapshot_response_ms |->
                            IF check.snapshot_success THEN snapshot_time ELSE None]
        IN  /\ check.status \in Bad =>
                    db[camera_name].consecutive_failures < MaxFailures
            /\ stats[camera_name].total_checks < MaxChecks
            /\ probe' = [probe EXCEPT ![camera_name] = check]
            /\ camera_health_log' =
                    IF KeepsEvent(outcome)
                    THEN [camera_health_log EXCEPT ![camera_name] = Append(@, result)]
                    ELSE camera_health_log
            /\ db' = IF KeepsSummary(outcome)
                     THEN [db EXCEPT ![camera_name] =
                                LogHealthCheck(db[camera_name], check.status)]
                     ELSE db
            /\ stats' = IF KeepsSummary(outcome)
                        THEN [stats EXCEPT ![camera_name] = MergeStats(@, result)]
                        ELSE stats
            /\ last_log' = [last_log EXCEPT ![camera_name] = [outcome |-> outcome]]
            /\ UNCHANGED <<now, advances, alert_threshold, health_cache,
                           alertVars, remediationVars, historyVars, threadVars,
                           ticket_id, remediationHistory, engineVars,
                           camera_downtime_log, batchVars, rule_eval, serviceVars>>

\* POST /api/camera/test
TestCamera == \E c \in Cameras : CheckAndLog(c, "manual")

\* the check and the logging of one camera in a scheduled batch
ScheduledCheck == \E c \in Cameras : CheckAndLog(c, "auto")

NextProbe ==
    \/ TestCamera
    \/ ScheduledCheck

SpecProbe == InitRemediation /\ [][NextProbe]_vars

(***************************************************************************)
(* AlertEngine: the loop of _run_loop, _evaluate_all_rules, and the        *)
(* evaluation of one camera of one rule.  The engine is a single thread;   *)
(* beside it the store comes and goes and EmailNotifier's threads deliver. *)
(***************************************************************************)
\* the engine's connection can reach the store
Usable == store_up /\ conn = "open"

\* what the store and the camera's history answer while one camera of one
\* rule is evaluated: every statement sent to the store can raise
DeviceEnvs ==
    [in_maintenance : BOOLEAN,
     maintenance_lookup : {"ok", "raises"},
     rate_lookup : {"ok", "raises"},
     query : {"found", "none", "raises"},
     insert : {"ok", "raises"},
     notify : {"queued", "lookup_raises", "update_raises"}]

\* with the store out of reach every statement raises
StoreAnswers ==
    IF Usable THEN DeviceEnvs
    ELSE {e \in DeviceEnvs :
            /\ e.maintenance_lookup = "raises"
            /\ e.rate_lookup = "raises"
            /\ e.query = "raises"
            /\ e.insert = "raises"
            /\ e.notify = "lookup_raises"}

\* AlertEngine._is_in_maintenance: False when the lookup raises
IsInMaintenance(e) ==
    e.maintenance_lookup = "ok" /\ e.in_maintenance

\* the test at the top of the camera loop: _check_sla_violations and
\* _check_extended_downtime have it, _check_camera_recovery has not
SkipsForMaintenance(rule, e) ==
    /\ rule.rule_type \in {"sla_violation", "extended_downtime"}
    /\ rule.suppress_during_maintenance
    /\ IsInMaintenance(e)

\* AlertEngine._can_trigger_alert: True when the lookup raises
CanTriggerAlert(rule, camera_name, e) ==
    IF rule.rate_limit_minutes = 0 THEN TRUE
    ELSE IF e.rate_lookup = "raises" THEN TRUE
    ELSE ~ (/\ triggered_at[<<rule.id, camera_name>>] # None
            /\ triggered_at[<<rule.id, camera_name>>] >= now - rule.rate_limit_minutes)

\* the camera's history is queried
Queries(rule, camera_name, e) ==
    ~ SkipsForMaintenance(rule, e) /\ CanTriggerAlert(rule, camera_name, e)

\* the query raises inside the camera loop: the rule's try block ends
RaisesInLoop(rule, camera_name, e) ==
    Queries(rule, camera_name, e) /\ e.query = "raises"

\* _trigger_alert is called and its INSERT into alert_history succeeds
CreatesAlert(rule, camera_name, e) ==
    Queries(rule, camera_name, e) /\ e.query = "found" /\ e.insert = "ok"

\* _send_email_notification for a created row: the thread is started and
\* notification_sent is set to 1 at once
NotificationOf(rule, camera_name, e) ==
    [rule_id |-> rule.id,
     camera_name |-> camera_name,
     notification_sent |-> IF e.notify = "queued" THEN 1 ELSE 0,
     delivery |-> IF e.notify = "lookup_raises" THEN "none" ELSE "queued"]

\* _run_loop: pyodbc.connect; on failure the thread returns
Connect ==
    /\ engine_pc = "connect"
    /\ conn' = IF store_up THEN "open" ELSE "none"
    /\ engine_pc' = IF store_up THEN "fetch" ELSE "returned"
    /\ UNCHANGED <<now, monitorVars, store_up, cycles, cycle_read_rules,
                   rule_queue, camera_queue, skipped, triggered_at, last_eval,
                   notification>>

\* _evaluate_all_rules: the SELECT of the enabled rules
FetchRules ==
    /\ engine_pc = "fetch"
    /\ cycle_read_rules' = Usable
    /\ engine_pc' = IF Usable THEN "evaluate" ELSE "sleep"
    /\ rule_queue' = IF Usable THEN AlertRules ELSE << >>
    /\ camera_queue' = IF Usable THEN GetCamerasForRule(Head(AlertRules)) ELSE << >>
    /\ skipped' = 0
    /\ last_eval' = NoEval
    /\ UNCHANGED <<now, monitorVars, store_up, conn, cycles, triggered_at,
                   notification>>

\* one pass of the camera loop of _check_sla_violations,
\* _check_extended_downtime or _check_camera_recovery, and what follows it
EvaluateCamera ==
    /\ engine_pc = "evaluate"
    /\ \E e \in StoreAnswers :
        LET rule == Head(rule_queue)
            camera_name == Head(camera_queue)
            pair == <<rule.id, camera_name>>
            cameras_left == IF RaisesInLoop(rule, camera_name, e)
                            THEN << >> ELSE Tail(camera_queue)
            rules_left == Tail(rule_queue)
        IN  /\ triggered_at' =
                    IF CreatesAlert(rule, camera_name, e)
                    THEN [triggered_at EXCEPT ![pair] = now]
                    ELSE triggered_at
            /\ notification' =
                    IF CreatesAlert(rule, camera_name, e)
                    THEN NotificationOf(rule, camera_name, e)
                    ELSE notification
            /\ last_eval' =
                    [rule_id |-> rule.id,
                     camera_name |-> camera_name,
                     in_maintenance |-> e.in_maintenance,
                     alert_created |-> CreatesAlert(rule, camera_name, e),
                     previous |-> triggered_at[pair]]
            /\ skipped' = skipped + Len(Tail(camera_queue)) - Len(cameras_left)
            /\ IF cameras_left # << >>
               THEN /\ camera_queue' = cameras_left
                    /\ UNCHANGED <<rule_queue, engine_pc>>
               ELSE IF rules_left # << >>
                    THEN /\ rule_queue' = rules_left
                         /\ camera_queue' = GetCamerasForRule(Head(rules_left))
                         /\ UNCHANGED engine_pc
                    ELSE /\ rule_queue' = << >>
                         /\ camera_queue' = << >>
                         /\ engine_pc' = "sleep"
    /\ UNCHANGED <<now, monitorVars, store_up, conn, cycles, cycle_read_rules>>

\* _run_loop: time.sleep(self.check_interval)
Sleep ==
    /\ engine_pc = "sleep"
    /\ cycles < MaxCycles
    /\ now' = now + engine_check_interval \div 60
    /\ cycles' = cycles + 1
    /\ engine_pc' = "fetch"
    /\ UNCHANGED <<monitorVars, store_up, conn, cycle_read_rules, rule_queue,
                   camera_queue, skipped, triggered_at, last_eval, notification>>

EngineStep ==
    \/ Connect
    \/ FetchRules
    \/ EvaluateCamera
    \/ Sleep

\* EmailNotifier.send_alert_notification in its own thread
SendAlertNotification ==
    /\ notification.delivery = "queued"
    /\ \E sent \in BOOLEAN :
          notification' = [notification EXCEPT
                             !.delivery = IF sent THEN "delivered" ELSE "failed"]
    /\ UNCHANGED <<now, monitorVars, store_up, conn, engine_pc, cycles,
                   cycle_read_rules, rule_queue, camera_queue, skipped,
                   triggered_at, last_eval>>

\* the store becomes unreachable; an open connection survives the outage
\* or is lost for good (the engine never connects again)
StoreDown ==
    /\ store_up
    /\ store_up' = FALSE
    /\ conn' \in (IF conn = "open" THEN {"open", "broken"} ELSE {conn})
    /\ UNCHANGED <<now, monitorVars, engine_pc, cycles, cycle_read_rules,
                   rule_queue, camera_queue, skipped, triggered_at, last_eval,
                   notification>>

StoreUp ==
    /\ ~ store_up
    /\ store_up' = TRUE
    /\ UNCHANGED <<now, monitorVars, conn, engine_pc, cycles, cycle_read_rules,
                   rule_queue, camera_queue, skipped, triggered_at, last_eval,
                   notification>>

NextEngine ==
    \/ EngineStep
    \/ SendAlertNotification
    \/ StoreDown
    \/ StoreUp

SpecEngine == InitRemediation /\ [][NextEngine]_vars

\* the engine thread and the notifier threads keep running
SpecEngineFair ==
    /\ InitRemediation
    /\ [][NextEngine]_vars
    /\ WF_vars(EngineStep)
    /\ WF_vars(SendAlertNotification)

\* AlertEngine.start, called again while the process runs: 'if
\* self.running: return'.  create_alert_engine has called it once at
\* process start, and nothing in the loop sets running back to False.
StartEngine ==
    /\ IF engine.running
       THEN /\ engine' = [engine EXCEPT !.ignored_starts = 1]
            /\ UNCHANGED engine_pc
       ELSE /\ engine' = [engine EXCEPT !.running = TRUE]
            /\ engine_pc' = "connect"
    /\ UNCHANGED <<now, advances, alert_threshold, db, health_cache,
                   alertVars, remediationVars, historyVars, threadVars,
                   ticket_id, remediationHistory, probe, storeVars, batchVars,
                   rule_eval, alert_history, api_response, lock, lock_pc,
                   lock_did, scheduler, listing, health_statistics, background>>
    /\ UNCHANGED <<store_up, conn, cycles, cycle_read_rules, rule_queue,
                   camera_queue, skipped, triggered_at, last_eval, notification>>

NextEngineStart ==
    \/ StartEngine
    \/ EngineStep
    \/ StoreDown
    \/ StoreUp

SpecEngineStart == InitRemediation /\ [][NextEngineStart]_vars

(***************************************************************************)
(* One camera of an sla_violation or extended_downtime rule evaluated      *)
(* against the tables.  The engine only reads camera_health_log and        *)
(* camera_downtime_log: their rows are what earlier runs and other writers *)
(* have left, and the summary row is what log_health_check has made of the *)
(* logged checks.                                                          *)
(***************************************************************************)
\* the sla_violation rule with a threshold of 20 or 50 percent, the
\* extended_downtime rule with a threshold of 0 or 25 minutes and the
\* recovery rule with a threshold of 30 minutes
RulesUnderTest ==
    {[AlertRules[1] EXCEPT !.threshold_value = t] : t \in {20, 50}}
    \cup {[AlertRules[2] EXCEPT !.threshold_value = t] : t \in {0, 25}}
    \cup {[AlertRules[3] EXCEPT !.threshold_value = 30]}

\* up to two logged checks, 27 and 10 minutes before the process started
Histories ==
    LET EventAt(t, status) ==
            [check_timestamp |-> t, status |-> status, ping_response_ms |-> 0,
             snapshot_response_ms |-> IF status = "online" THEN 0 ELSE None]
    IN  {SelectSeq(<<EventAt(-27, a), EventAt(-10, b)>>,
                   LAMBDA ev : ev.status # "none") :
            a \in {"none", "online", "offline"}, b \in {"none", "online", "offline"}}

\* any of: a downtime open for almost a day, one open for 20 minutes, one
\* that ended after five minutes and an earlier one that ended after 35
DowntimeLogs ==
    SUBSET {[downtime_start |-> -1438, downtime_end |-> None],
            [downtime_start |-> -20, downtime_end |-> None],
            [downtime_start |-> -20, downtime_end |-> -15],
            [downtime_start |-> -60, downtime_end |-> -25]}

RECURSIVE Replay(_)
\* the summary row after the checks of a log were persisted one by one
Replay(log) ==
    IF log = << >> THEN [row |-> NoRow, stats |-> NoStats]
    ELSE LET before == Replay(SubSeq(log, 1, Len(log) - 1))
             last == log[Len(log)]
         IN  [row |-> LogHealthCheck(before.row, last.status),
              stats |-> MergeStats(before.stats, last)]

\* _check_sla_violations: the rows of the evaluation window, and the test
\* uptime_pct < threshold
SlaViolation(rule, camera_name) ==
    LET window == SelectSeq(camera_health_log[camera_name],
                    LAMBDA ev : ev.check_timestamp >= now - rule.evaluation_window_minutes)
    IN  /\ Len(window) # 0
        /\ OnlineEvents(window) * 100 < rule.threshold_value * Len(window)

\* uptime_pct = (online_checks / total_checks) * 100, as <<numerator, denominator>>
UptimePct(rule, camera_name) ==
    LET window == SelectSeq(camera_health_log[camera_name],
                    LAMBDA ev : ev.check_timestamp >= now - rule.evaluation_window_minutes)
    IN  <<OnlineEvents(window) * 100, Len(window)>>

ExtendedDowntime_AnyOpenInterval(rule, camera_name) ==
    LET open == OpenIntervals(camera_name)
    IN  /\ open # {}
        /\ LET row == CHOOSE r \in open :
                        \A q \in open : q.downtime_start <= r.downtime_start
           IN  now - row.downtime_start >= rule.threshold_value

\* _check_extended_downtime: TOP 1 of the open rows started in the last 24
\* hours, newest first, and the test downtime_minutes >= threshold_minutes
ExtendedDowntime(rule, camera_name) ==
    LET recent == {r \in OpenIntervals(camera_name) :
                        r.downtime_start >= now - 24 * 60}
    IN  /\ recent # {}
        /\ LET row == CHOOSE r \in recent :
                        \A q \in recent : q.downtime_start <= r.downtime_start
           IN  now - row.downtime_start >= rule.threshold_value

\* _check_camera_recovery: TOP 1 of the closed rows that ended inside the
\* window and lasted threshold minutes or more (duration_minutes is
\* DATEDIFF(MINUTE, downtime_start, downtime_end))
CameraRecovery(rule, camera_name) ==
    \E r \in camera_downtime_log[camera_name] :
        /\ r.downtime_end # None
        /\ r.downtime_end >= now - rule.evaluation_window_minutes
        /\ r.downtime_end - r.downtime_start >= rule.threshold_value

\* 'if not threshold: return': a rule whose threshold is 0 or NULL is not
\* evaluated at all
EvaluateAgainstTables ==
    \E rule \in RulesUnderTest, camera_name \in Cameras,
       in_maintenance \in BOOLEAN, maintenance_lookup \in {"ok", "raises"},
       rate_lookup \in {"ok", "raises"}, query_raises \in BOOLEAN,
       insert \in {"ok", "raises"} :
        LET finds == CASE rule.rule_type = "sla_violation" ->
                            SlaViolation(rule, camera_name)
                       [] rule.rule_type = "extended_downtime" ->
                            ExtendedDowntime(rule, camera_name)
                       [] rule.rule_type = "recovery" ->
                            CameraRecovery(rule, camera_name)
            e == [in_maintenance |-> in_maintenance,
                  maintenance_lookup |-> maintenance_lookup,
                  rate_lookup |-> rate_lookup,
                  query |-> IF query_raises THEN "raises"
                            ELSE IF finds THEN "found"
                            ELSE "none",
                  insert |-> insert,
                  notify |-> "queued"]
            pair == <<rule.id, camera_name>>
            alert == /\ rule.threshold_value # 0
                     /\ CreatesAlert(rule, camera_name, e)
        IN  /\ triggered_at' = IF alert THEN [triggered_at EXCEPT ![pair] = now]
                               ELSE triggered_at
            /\ notification' = IF alert THEN NotificationOf(rule, camera_name, e)
                               ELSE notification
            /\ rule_eval' =
                    [rule_id |-> rule.id,
                     threshold_value |-> rule.threshold_value,
                     at |-> now,
                     in_maintenance |-> e.in_maintenance,
                     previous |-> triggered_at[pair],
                     answered |-> e.query # "raises" /\ e.insert = "ok",
                     alert_created |-> alert,
                     trigger_value |->
                        IF alert /\ rule.rule_type = "sla_violation"
                        THEN UptimePct(rule, camera_name) ELSE None]
            /\ UNCHANGED <<now, alert_threshold, advances, db, health_cache,
                           alertVars, remediationVars, historyVars, threadVars,
                           ticket_id, remediationHistory, probe>>
            /\ UNCHANGED <<storeVars, batchVars, store_up, conn, engine_pc, cycles,
                           cycle_read_rules, rule_queue, camera_queue, skipped,
                           last_eval, serviceVars>>

InitRules ==
    /\ Managers
    /\ alert_threshold = 3
    /\ camera_health_log \in [Cameras -> Histories]
    /\ camera_downtime_log \in [Cameras -> DowntimeLogs]
    \* the checks are read by one rule and the intervals by the other two:
    \* a camera has logged checks or downtime rows
    /\ \A c \in Cameras : camera_health_log[c] = << >> \/ camera_downtime_log[c] = {}
    /\ db = [c \in Cameras |-> Replay(camera_health_log[c]).row]
    /\ stats = [c \in Cameras |-> Replay(camera_health_log[c]).stats]
    /\ health_cache = LoadedCache(db)

NextRules ==
    \/ EvaluateAgainstTables
    \/ Advance

SpecRules == InitRules /\ [][NextRules]_vars

(***************************************************************************)
(* The lifecycle of an alert_history row: AlertEngine._trigger_alert       *)
(* inserts it as 'triggered', POST /api/alerts/history/<id>/acknowledge    *)
(* and .../resolve update it.  No statement of the program deletes from    *)
(* alert_history.                                                          *)
(***************************************************************************)
MaxAlertRows == 2

\* the row of an id, NoAlertRow when there is none
AlertRow(alert_id) ==
    IF alert_id \in DOMAIN alert_history THEN alert_history[alert_id] ELSE NoAlertRow

\* the INSERT of _trigger_alert
InsertAlert ==
    /\ Len(alert_history) < MaxAlertRows
    /\ alert_history' = Append(alert_history,
            [status |-> "triggered", triggered_at |-> now,
             acknowledged_at |-> None, acknowledged_by |-> "",
             resolved_at |-> None, resolved_by |-> ""])
    /\ UNCHANGED <<now, advances, alert_threshold, db, health_cache,
                   alertVars, remediationVars, historyVars, threadVars,
                   ticket_id, remediationHistory, probe, engineVars,
                   storeVars, batchVars, rule_eval, api_response,
                   lock, lock_pc, lock_did, scheduler, listing, engine, health_statistics, background>>

ResolveAlert_AnyStatus(alert_id, resolved_by, raises) ==
    LET rowcount == IF alert_id \in DOMAIN alert_history THEN 1 ELSE 0
        updated == raises = "none" /\ rowcount = 1
    IN  /\ alert_history' =
                IF updated
                THEN [alert_history EXCEPT ![alert_id] =
                        [@ EXCEPT !.status = "resolved", !.resolved_at = now,
                                  !.resolved_by = resolved_by]]
                ELSE alert_history
        /\ api_response' =
                [op |-> "resolve",
                 code |-> IF raises # "none" THEN 500
                          ELSE IF rowcount = 0 THEN 404 ELSE 200,
                 before |-> AlertRow(alert_id),
                 after |-> IF updated THEN alert_history'[alert_id]
                           ELSE AlertRow(alert_id)]

\* api_acknowledge_alert: UPDATE ... WHERE id = ? AND status = 'triggered',
\* commit; 404 when no row was updated, 500 and a rollback when the body
\* is not JSON or a statement raises
AcknowledgeAlert(alert_id, acknowledged_by, raises) ==
    LET rowcount == IF /\ alert_id \in DOMAIN alert_history
                       /\ alert_history[alert_id].status = "triggered"
                    THEN 1 ELSE 0
        updated == raises = "none" /\ rowcount = 1
    IN  /\ alert_history' =
                IF updated
                THEN [alert_history EXCEPT ![alert_id] =
                        [@ EXCEPT !.status = "acknowledged", !.acknowledged_at = now,
                                  !.acknowledged_by = acknowledged_by]]
                ELSE alert_history
        /\ api_response' =
                [op |-> "acknowledge",
                 code |-> IF raises # "none" THEN 500
                          ELSE IF rowcount = 0 THEN 404 ELSE 200,
                 before |-> AlertRow(alert_id),
                 after |-> IF updated THEN alert_history'[alert_id]
                           ELSE AlertRow(alert_id)]

\* api_resolve_alert: UPDATE ... WHERE id = ? AND status != 'resolved'
ResolveAlert(alert_id, resolved_by, raises) ==
    LET rowcount == IF /\ alert_id \in DOMAIN alert_history
                       /\ alert_history[alert_id].status # "resolved"
                    THEN 1 ELSE 0
        updated == raises = "none" /\ rowcount = 1
    IN  /\ alert_history' =
                IF updated
                THEN [alert_history EXCEPT ![alert_id] =
                        [@ EXCEPT !.status = "resolved", !.resolved_at = now,
                                  !.resolved_by = resolved_by]]
                ELSE alert_history
        /\ api_response' =
                [op |-> "resolve",
                 code |-> IF raises # "none" THEN 500
                          ELSE IF rowcount = 0 THEN 404 ELSE 200,
                 before |-> AlertRow(alert_id),
                 after |-> IF updated THEN alert_history'[alert_id]
                           ELSE AlertRow(alert_id)]

\* a request to one of the two endpoints, for an id that may not exist
NextAlerts ==
    \/ InsertAlert
    \/ Advance
    \/ \E alert_id \in 1..(MaxAlertRows + 1), by \in {"system", "operator"},
          raises \in {"none", "body", "execute", "commit"} :
        /\ \/ AcknowledgeAlert(alert_id, by, raises)
           \/ ResolveAlert(alert_id, by, raises)
        /\ UNCHANGED <<now, advances, alert_threshold, db, health_cache,
                       alertVars, remediationVars, historyVars, threadVars,
                       ticket_id, remediationHistory, probe, engineVars,
                       storeVars, batchVars, rule_eval, lock, lock_pc, lock_did,
                       scheduler, listing, engine, health_statistics, background>>

SpecAlerts == InitRemediation /\ [][NextAlerts]_vars

(***************************************************************************)
(* HealthCheckManager.lock: check_all_cameras and get_all_camera_status    *)
(* statement by statement.  A thread's label names the statement it        *)
(* executes next; the statements of LockedLabels are the bodies of the     *)
(* 'with self.lock' blocks.                                                *)
(***************************************************************************)
LockedLabels_WholeIteration ==
    {"probe", "log", "update", "status_read", "status_store", "refresh"}

\* "update": the cache update of one camera (1188-1200); "status_read": the
\* test of the cache (865-867); "status_store": the assignment of the cache
\* (923-924); "refresh": the merge of the counters (1214-1225)
LockedLabels ==
    {"update", "status_read", "status_store", "refresh"}

\* thread t has executed the statement of its label, which did 'did', and
\* goes on at label 'to'; a statement inside a with block is executed with
\* the lock, and leaving the block gives the lock back
Goes(t, to, did) ==
    /\ (lock_pc[t].at \in LockedLabels) => lock = t
    /\ lock' = IF lock = t THEN "free" ELSE lock
    /\ lock_pc' = [lock_pc EXCEPT ![t] = to]
    /\ lock_did' = [lock_did EXCEPT ![t] = [did |-> did, held |-> lock = t]]

LockStep(t) ==
    LET here == lock_pc[t]
        \* the placeholders of get_all_camera_status when the store is out of reach
        unknown_statuses ==
            [c \in Cameras |-> [status |-> "unknown", consecutive_failures |-> 0]]
        c == here.camera_name
        quiet == UNCHANGED <<db, health_cache, alertVars, remediationVars,
                             historyVars>>
        done == [Idle EXCEPT !.rounds = here.rounds + 1]
    IN  /\ \* with self.lock: threading.Lock.acquire blocks until it is free
           \/ /\ here.at \in LockedLabels
              /\ lock = "free"
              /\ lock' = t
              /\ UNCHANGED <<lock_pc, lock_did>>
              /\ quiet
           \/ /\ here.at = "idle"
              /\ here.rounds < MaxRounds
              /\ IF t = "loop"
                 THEN Goes(t, [here EXCEPT !.at = "probe", !.todo = Cameras], "none")
                 ELSE Goes(t, [here EXCEPT !.at = "status_read"], "none")
              /\ quiet
           \* for camera_id, camera_data in self.camera_config.items():
           \*     result = self.check_camera_health(...)
           \/ /\ here.at = "probe"
              /\ quiet
              /\ IF here.todo = {}
                 THEN Goes(t, [here EXCEPT !.at = "status_read"], "none")
                 ELSE \E n \in here.todo, outcome \in ProbeStatus \cup {"raised"} :
                        IF outcome = "raised"
                        THEN Goes(t, [here EXCEPT !.todo = @ \ {n}], "probe")
                        ELSE Goes(t, [here EXCEPT !.at = "log", !.todo = @ \ {n},
                                                  !.camera_name = n,
                                                  !.status = outcome], "probe")
           \* self.log_health_check(result)
           \/ /\ here.at = "log"
              /\ here.status \in Bad => db[c].consecutive_failures < MaxFailures
              /\ \E persisted \in BOOLEAN :
                    db' = IF persisted
                          THEN [db EXCEPT ![c] = LogHealthCheck(db[c], here.status)]
                          ELSE db
              /\ Goes(t, [here EXCEPT !.at = "update"], "store")
              /\ UNCHANGED <<health_cache, alertVars, remediationVars, historyVars>>
           \* with self.lock: self.health_cache[camera_name].update({...})
           \/ /\ here.at = "update"
              /\ health_cache' = [health_cache EXCEPT ![c] =
                    [status |-> here.status,
                     consecutive_failures |-> health_cache[c].consecutive_failures]]
              /\ Goes(t, [here EXCEPT !.at = "probe"], "memory")
              /\ UNCHANGED <<db, alertVars, remediationVars, historyVars>>
           \* with self.lock: if self.health_cache: return list(...)
           \/ /\ here.at = "status_read"
              /\ quiet
              /\ IF \E n \in Cameras : health_cache[n] # NoEntry
                 THEN Goes(t, [here EXCEPT !.at = "returned",
                                           !.result = health_cache], "memory")
                 ELSE Goes(t, [here EXCEPT !.at = "status_query"], "memory")
           \* conn = self.get_db_connection() ... cursor.execute(SELECT ...)
           \/ /\ here.at = "status_query"
              /\ quiet
              /\ \E answered \in BOOLEAN :
                    IF answered
                    THEN Goes(t, [here EXCEPT !.at = "status_store",
                                              !.result = LoadedCache(db)], "store")
                    ELSE Goes(t, [here EXCEPT !.at = "returned",
                                              !.result = unknown_statuses], "store")
           \* with self.lock: self.health_cache = {...}
           \/ /\ here.at = "status_store"
              /\ health_cache' = here.result
              /\ Goes(t, [here EXCEPT !.at = "returned"], "memory")
              /\ UNCHANGED <<db, alertVars, remediationVars, historyVars>>
           \* the caller has the list: if db_status: with self.lock: ...
           \/ /\ here.at = "returned"
              /\ quiet
              /\ IF t = "loop" /\ \E n \in Cameras : here.result[n] # NoEntry
                 THEN Goes(t, [here EXCEPT !.at = "refresh"], "none")
                 ELSE Goes(t, done, "none")
           \* the merge of the counters into the cache, and after the with
           \* block the calls of the two controllers
           \/ /\ here.at = "refresh"
              /\ health_cache' = [n \in Cameras |->
                    IF health_cache[n] = NoEntry THEN NoEntry
                    ELSE [health_cache[n] EXCEPT !.consecutive_failures =
                            CachedFailures(here.result[n])]]
              /\ Goes(t, [here EXCEPT !.at = "controllers"], "memory")
              /\ UNCHANGED <<db, alertVars, remediationVars, historyVars>>
           \/ /\ here.at = "controllers"
              /\ NotifyControllers(
                    [n \in Cameras |-> here.result[n].status],
                    [n \in Cameras |-> CachedFailures(here.result[n])])
              /\ Goes(t, done, "notify")
              /\ UNCHANGED <<db, health_cache>>
        /\ UNCHANGED <<now, advances, alert_threshold, threadVars, ticket_id,
                       remediationHistory, probe, engineVars, storeVars,
                       batchVars, rule_eval, alert_history, api_response,
                       scheduler, listing, engine, health_statistics, background>>

NextLock ==
    \/ LockStep("loop")
    \/ LockStep("reader")

SpecLock == InitRemediation /\ [][NextLock]_vars

(***************************************************************************)
(* HealthCheckManager.get_health_statistics, with the call of              *)
(* get_all_camera_status it begins with: the cached dictionaries when the  *)
(* cache is not empty, else the rows of camera_health_summary (which also  *)
(* become the cache), else, when the store does not answer, a placeholder  *)
(* with status 'unknown' for every configured camera that has an address.  *)
(***************************************************************************)
GetHealthStatistics ==
    \E answered \in BOOLEAN :
        LET cached == {c \in Cameras : health_cache[c] # NoEntry}
            rows == LoadedCache(db)
            statuses ==
                IF cached # {} THEN [c \in cached |-> health_cache[c].status]
                ELSE IF answered
                     THEN [c \in {r \in Cameras : rows[r] # NoEntry} |-> rows[c].status]
                     ELSE [i \in {k \in DOMAIN camera_config : camera_config[k].ip}
                                |-> "unknown"]
            Count(status) ==
                Cardinality({k \in DOMAIN statuses : statuses[k] = status})
            total == Len(camera_config)
        IN  /\ health_statistics' =
                    IF DOMAIN statuses = {}
                    THEN [total_cameras |-> total, online |-> 0, offline |-> 0,
                          degraded |-> 0, unknown |-> total]
                    ELSE [total_cameras |-> total,
                          online |-> Count("online"),
                          offline |-> Count("offline"),
                          degraded |-> Count("degraded"),
                          unknown |-> total - Cardinality(DOMAIN statuses)]
            /\ health_cache' = IF cached = {} /\ answered THEN rows ELSE health_cache
            /\ UNCHANGED <<now, advances, alert_threshold, db, alertVars,
                           remediationVars, historyVars, threadVars, ticket_id,
                           remediationHistory, probe, engineVars, storeVars,
                           batchVars, rule_eval, alert_history, api_response,
                           lock, lock_pc, lock_did, scheduler, listing, engine,
                           background>>

NextStatistics ==
    \/ GetHealthStatistics
    \/ CheckAllCameras
    \/ Advance

SpecStatistics == InitRemediation /\ [][NextStatistics]_vars

(***************************************************************************)
(* start_background_checks, stop_background_checks and the threads running *)
(* _background_check_loop.  A thread is at "initial" or "checking" while   *)
(* it executes check_all_cameras, at "test" when it evaluates the while    *)
(* condition, at "sleeping" in time.sleep(check_interval).                 *)
(***************************************************************************)
StartBackgroundChecks ==
    \E answered \in BOOLEAN :
        LET started == {t \in 1..MaxLoops : background.loop[t] # "none"}
            thread == Cardinality(started) + 1
            rows == LoadedCache(db)
            \* what get_all_camera_status returns goes into the cache
            db_status ==
                IF \E c \in Cameras : health_cache[c] # NoEntry THEN health_cache
                ELSE IF answered THEN rows
                ELSE [c \in Cameras |->
                        IF \E i \in DOMAIN camera_config :
                               camera_config[i].name = c /\ camera_config[i].ip
                        THEN [status |-> "unknown", consecutive_failures |-> 0]
                        ELSE NoEntry]
        IN  /\ thread <= MaxLoops
            /\ IF background.running
               THEN UNCHANGED <<background, health_cache>>
               ELSE /\ health_cache' = db_status
                    /\ background' = [running |-> TRUE, check_thread |-> thread,
                                      loop |-> [background.loop EXCEPT ![thread] = "initial"]]
            /\ UNCHANGED <<now, advances, alert_threshold, db, alertVars,
                           remediationVars, historyVars, threadVars, ticket_id,
                           remediationHistory, probe, engineVars, storeVars,
                           batchVars, rule_eval, alert_history, api_response,
                           lock, lock_pc, lock_did, scheduler, listing, engine,
                           health_statistics>>

\* join(timeout=5) waits at most five seconds for check_thread and changes
\* nothing; a thread in time.sleep(check_interval) sleeps up to 300 seconds
StopBackgroundChecks ==
    /\ background' = [background EXCEPT !.running = FALSE]
    /\ UNCHANGED <<now, advances, alert_threshold, db, health_cache, alertVars,
                   remediationVars, historyVars, threadVars, ticket_id,
                   remediationHistory, probe, engineVars, storeVars,
                   batchVars, rule_eval, alert_history, api_response,
                   lock, lock_pc, lock_did, scheduler, listing, engine,
                   health_statistics>>

BackgroundCheckLoop(t) ==
    LET at == background.loop[t]
        Goto(to) == background' = [background EXCEPT !.loop[t] = to]
        rest == <<now, advances, alert_threshold, threadVars, ticket_id,
                  remediationHistory, probe, engineVars, storeVars, batchVars,
                  rule_eval, alert_history, api_response, lock, lock_pc,
                  lock_did, scheduler, listing, engine, health_statistics>>
    IN  \/ /\ at \in {"initial", "checking"}
           /\ \E result \in [Cameras -> ProbeStatus] :
                /\ \A c \in Cameras :
                      /\ result[c] \in Bad => db[c].consecutive_failures < MaxFailures
                      /\ alert_count_today[c] < MaxAlerts
                /\ db' = [c \in Cameras |-> LogHealthCheck(db[c], result[c])]
                /\ health_cache' = CacheAfterRefresh(result)
                /\ NotifyControllers(result,
                        [c \in Cameras |->
                            CacheAfterRefresh(result)[c].consecutive_failures])
           /\ Goto("test")
           /\ UNCHANGED rest
        \/ /\ at = "test"
           /\ Goto(IF background.running THEN "sleeping" ELSE "ended")
           /\ UNCHANGED <<rest, db, health_cache, alertVars, remediationVars,
                          historyVars>>
        \/ /\ at = "sleeping"
           /\ Goto(IF background.running THEN "checking" ELSE "test")
           /\ UNCHANGED <<rest, db, health_cache, alertVars, remediationVars,
                          historyVars>>

NextBackground ==
    \/ StartBackgroundChecks
    \/ StopBackgroundChecks
    \/ \E t \in 1..MaxLoops : BackgroundCheckLoop(t)

SpecBackground == InitRemediation /\ [][NextBackground]_vars

(***************************************************************************)
(* ReportScheduler (report_scheduler.py).  Its clock is counted in seconds *)
(* since a Monday, 00:00:00; scheduled times are minutes of the day.       *)
(***************************************************************************)
SecondsPerDay == 86400
daily_report_time == 480
weekly_report_day == 1
weekly_report_time == 540
MaxWeeks == 2

\* ReportScheduler._should_send_daily_report at time t
\* (now.hour == report_hour and now.minute == report_minute, not yet today)
ShouldSendDailyReport(t) ==
    /\ (t % SecondsPerDay) \div 60 = daily_report_time
    /\ scheduler.last_daily_report # None =>
            scheduler.last_daily_report \div SecondsPerDay # t \div SecondsPerDay

\* ReportScheduler._should_send_weekly_report at time t:
\* (now - self.last_weekly_report).days < 7 means already sent
ShouldSendWeeklyReport(t) ==
    /\ (t \div SecondsPerDay) % 7 = weekly_report_day
    /\ (t % SecondsPerDay) \div 60 = weekly_report_time
    /\ scheduler.last_weekly_report # None =>
            (t - scheduler.last_weekly_report) \div SecondsPerDay >= 7

\* ReportScheduler.start: the loop starts at once, at some second of a
\* minute
StartScheduler ==
    /\ ~ scheduler.running
    /\ \E second \in {0, 50} :
            scheduler' = [scheduler EXCEPT !.running = TRUE, !.at = second]
    /\ UNCHANGED <<now, advances, alert_threshold, db, health_cache,
                   alertVars, remediationVars, historyVars, threadVars,
                   ticket_id, remediationHistory, probe, engineVars,
                   storeVars, batchVars, rule_eval, alert_history, api_response,
                   lock, lock_pc, lock_did, listing, engine, health_statistics, background>>

\* _scheduler_loop: the iterations whose checks fall outside both scheduled
\* minutes change nothing and take the 60 seconds of their sleep; the action
\* is these iterations and the first one whose check falls in a scheduled
\* minute.  A report takes some seconds to send, and last_*_report is
\* datetime.now() after it was sent.
SchedulerLoop ==
    /\ scheduler.running
    /\ scheduler.at < MaxWeeks * 7 * SecondsPerDay
    /\ \E seconds \in {0, 15}, success \in BOOLEAN :
        LET from == scheduler.at
            Wait(report_time) ==
                (report_time - (from % SecondsPerDay) \div 60) % (SecondsPerDay \div 60)
            idle == IF Wait(daily_report_time) < Wait(weekly_report_time)
                    THEN Wait(daily_report_time) ELSE Wait(weekly_report_time)
            t == from + 60 * idle
            daily == ShouldSendDailyReport(t)
            t_weekly == IF daily THEN t + seconds ELSE t
            weekly == ShouldSendWeeklyReport(t_weekly)
            t_end == IF weekly THEN t_weekly + seconds ELSE t_weekly
        IN  scheduler' =
                [running |-> TRUE,
                 at |-> t_end + 60,
                 last_daily_report |->
                    IF daily /\ success THEN t_weekly
                    ELSE scheduler.last_daily_report,
                 last_weekly_report |->
                    IF weekly /\ success THEN t_end
                    ELSE scheduler.last_weekly_report,
                 weekly_sent |->
                    IF weekly /\ success
                    THEN scheduler.weekly_sent \cup {t_weekly}
                    ELSE scheduler.weekly_sent,
                 send_failed |->
                    \/ scheduler.send_failed
                    \/ daily /\ ~ success
                    \/ weekly /\ ~ success]
    /\ UNCHANGED <<now, advances, alert_threshold, db, health_cache,
                   alertVars, remediationVars, historyVars, threadVars,
                   ticket_id, remediationHistory, probe, engineVars,
                   storeVars, batchVars, rule_eval, alert_history, api_response,
                   lock, lock_pc, lock_did, listing, engine, health_statistics, background>>

NextReports ==
    \/ StartScheduler
    \/ SchedulerLoop

SpecReports == InitRemediation /\ [][NextReports]_vars

(***************************************************************************)
(* GET /api/cameras/list (CCTV_OperationsTool_Fixed.py).  A string is the  *)
(* sequence of its characters' code points: 45 is '-', 32 ' ', 48..57 the  *)
(* digits, 65..90 'A'..'Z', 97..122 'a'..'z'.                              *)
(***************************************************************************)
\* CAMERAS in the order of the configuration file: "b1", "A2", "a1" and
\* "CCTV-I-1-E"; name is the parts joined by '-' behind the prefix
CAMERAS ==
    << [id |-> 1, cctv |-> FALSE, parts |-> << <<98, 49>> >>, ip |-> <<50>>],
       [id |-> 2, cctv |-> FALSE, parts |-> << <<65, 50>> >>, ip |-> <<49>>],
       [id |-> 3, cctv |-> FALSE, parts |-> << <<97, 49>> >>, ip |-> <<51>>],
       [id |-> 4, cctv |-> TRUE, parts |-> << <<73>>, <<49>>, <<69>> >>, ip |-> <<49>>] >>

RECURSIVE StrLess(_, _)
\* a < b on Python strings
StrLess(a, b) ==
    IF b = << >> THEN FALSE
    ELSE IF a = << >> THEN TRUE
    ELSE IF a[1] = b[1] THEN StrLess(Tail(a), Tail(b))
    ELSE a[1] < b[1]

Paginate_FromTheStart(camera_list, limit, offset) ==
    LET n == Len(camera_list)
        stop == IF limit \in {None, 0} THEN n ELSE IF limit < n THEN limit ELSE n
    IN  SubSeq(camera_list, 1, stop)

\* camera_list[offset:offset + limit] if limit else camera_list[offset:],
\* with the slice's rules for negative and too large indices
Paginate(camera_list, limit, offset) ==
    LET n == Len(camera_list)
        Index(i) == IF i < 0 THEN (IF n + i < 0 THEN 0 ELSE n + i)
                    ELSE IF i > n THEN n ELSE i
        start == Index(offset)
        stop == IF limit \in {None, 0} THEN n ELSE Index(offset + limit)
    IN  SubSeq(camera_list, start + 1, stop)

\* list_cameras: the dictionaries built from CAMERAS, the search filter,
\* the sort and the pagination; limit is None when the parameter is absent
ListCameras(search_arg, sort_field, sort_order, limit, offset) ==
    LET Lower(str) == [i \in DOMAIN str |->
                        IF str[i] \in 65..90 THEN str[i] + 32 ELSE str[i]]
        Contains(hay, needle) ==
            \E i \in 0..(Len(hay) - Len(needle)) :
                SubSeq(hay, i + 1, i + Len(needle)) = needle
        dash(parts) == [i \in 1..(2 * Len(parts) - 1) |->
                            IF i % 2 = 1 THEN parts[(i + 1) \div 2] ELSE <<45>>]
        RECURSIVE Concat(_)
        Concat(strs) == IF strs = << >> THEN << >>
                        ELSE Head(strs) \o Concat(Tail(strs))
        Name(camera_data) ==
            (IF camera_data.cctv THEN <<67, 67, 84, 86, 45>> ELSE << >>)
                \o Concat(dash(camera_data.parts))
        \* extract_location
        Location(camera_data) ==
            IF Len(camera_data.parts) >= 3
            THEN camera_data.parts[1] \o <<32, 77, 77, 32>> \o camera_data.parts[2]
                    \o <<32>> \o camera_data.parts[3]
            ELSE Name(camera_data)
        all == [i \in DOMAIN CAMERAS |->
                    [id |-> CAMERAS[i].id, name |-> Name(CAMERAS[i]),
                     ip |-> CAMERAS[i].ip, location |-> Location(CAMERAS[i])]]
        search == Lower(search_arg)
        filtered == IF search = << >> THEN all
                    ELSE SelectSeq(all, LAMBDA cam :
                            \/ Contains(Lower(cam.name), search)
                            \/ Contains(Lower(cam.ip), search)
                            \/ Contains(Lower(cam.location), search))
        Key(cam) == CASE sort_field = "name" -> cam.name
                      [] sort_field = "ip" -> cam.ip
                      [] sort_field = "location" -> cam.location
        \* list.sort is stable, also with reverse=True
        Before(e, x) == IF sort_order = "desc" THEN ~ StrLess(Key(e), Key(x))
                        ELSE ~ StrLess(Key(x), Key(e))
        RECURSIVE Sort(_)
        Sort(list) ==
            IF list = << >> THEN << >>
            ELSE LET rest == Sort(SubSeq(list, 1, Len(list) - 1))
                     x == list[Len(list)]
                 IN  SelectSeq(rest, LAMBDA e : Before(e, x)) \o <<x>>
                        \o SelectSeq(rest, LAMBDA e : ~ Before(e, x))
        sorted == IF sort_field \in {"name", "ip", "location"} THEN Sort(filtered)
                  ELSE filtered
        page == Paginate(sorted, limit, offset)
    IN  [total |-> Len(sorted), count |-> Len(page), offset |-> offset,
         cameras |-> page]

\* a request with any of a few search terms ("", "A", "1", "mm"), sort
\* fields, orders, limits and offsets
NextList ==
    \E search \in {<< >>, <<65>>, <<49>>, <<109, 109>>},
       sort_field \in {"name", "ip", "location", "id"},
       sort_order \in {"asc", "desc"},
       limit \in {None, 0, 1, 2, 5}, offset \in {-1, 0, 1, 3, 5} :
        /\ listing' = [requests |-> 1, search |-> search, sort_field |-> sort_field,
                       sort_order |-> sort_order, limit |-> limit, offset |-> offset,
                       response |-> ListCameras(search, sort_field, sort_order,
                                                limit, offset)]
        /\ UNCHANGED <<now, advances, alert_threshold, db, health_cache,
                       alertVars, remediationVars, historyVars, threadVars,
                       ticket_id, remediationHistory, probe, engineVars,
                       storeVars, batchVars, rule_eval, alert_history,
                       api_response, lock, lock_pc, lock_did, scheduler, engine, health_statistics, background>>

SpecList == InitRemediation /\ [][NextList]_vars

TypeOK ==
    /\ now \in Nat
    /\ \A c \in Cameras : db[c].consecutive_failures \in 0 .. MaxFailures

(***************************************************************************)
(* Properties of the health check pipeline and of the two controllers.     *)
(***************************************************************************)

\* C1: after every batch, the failure count handed to the alert and the
\* remediation controller for a device equals the device's persisted
\* consecutive_failures as that batch's check has updated it.
C1_HandedCountIsPersistedCount ==
    [][CheckAllCameras =>
        \A c \in Cameras :
            last_call'[c].failures = db'[c].consecutive_failures]_vars

\* C2: a run of failing checks invokes the reboot action exactly once: the
\* check that finds the persisted run at or above autoRebootThreshold with
\* neither guard set invokes it, and no check invokes it inside the ticket
\* cooldown or while the device is under remediation.
C2_RebootOncePerFailureRun ==
    [][CheckAllCameras =>
        \A c \in Cameras :
            /\ (/\ db'[c].current_status \in Bad
                /\ db'[c].consecutive_failures >= auto_reboot_threshold
                /\ ~ InTicketCooldown(c)
                /\ c \notin cameras_under_remediation) => last_call'[c].reboot
            /\ last_call'[c].reboot =>
                    ~ InTicketCooldown(c) /\ c \notin cameras_under_remediation]_vars

\* C3: with alertThreshold = 1 every incident (a run of Degraded/Offline
\* checks that follows an Online check) has produced exactly one offline
\* alert as soon as it is open, and when it ends with an Online check it has
\* produced exactly one offline alert and exactly one recovery alert.
C3_OneOfflineOneRecoveryPerIncident ==
    alert_threshold = 1 =>
        \A c \in Cameras :
            /\ incident[c].open => incident[c].offline_alerts = 1
            /\ closed_incident[c] # NoClosed =>
                    /\ closed_incident[c].offline_alerts = 1
                    /\ closed_incident[c].recovery_alerts = 1

\* C4: the offline alerts sent for one device inside one calendar day never
\* exceed maxDailyAlerts (alert_count_today counts every offline alert since
\* last_reset_date).
C4_DailyCap ==
    \A c \in Cameras :
        Date(now) = last_reset_date => alert_count_today[c] <= max_daily_alerts

\* C5: an offline alert for a device is never sent less than alert_cooldown
\* minutes after the previous offline alert for the same device.
C5_CooldownBetweenOfflineAlerts ==
    [][\A c \in Cameras :
        (alert_count_today'[c] > alert_count_today[c] /\ last_alert_time[c] # None)
            => now - last_alert_time[c] >= alert_cooldown]_vars

\* C6: an offline/degraded alert is sent only in a call whose new status is
\* Degraded or Offline, whose previously recorded status is none of Degraded,
\* Offline, Unknown, and whose consecutiveFailures >= alertThreshold.
C6_OfflineAlertOnlyWhenNewlyBad ==
    [][\A c \in Cameras :
        (alert_count_today'[c] # alert_count_today[c] \/
         (CheckAllCameras /\ last_call'[c].offline_alert))
            => /\ last_call'[c].offline_alert
               /\ last_call'[c].status \in {"degraded", "offline"}
               /\ previous_status'[c] = last_call'[c].status
               /\ previous_status[c] \notin {"degraded", "offline", "unknown"}
               /\ last_call'[c].failures >= alert_threshold]_vars

C6_Witness ==
    \E c \in Cameras :
        /\ last_call[c].offline_alert
        /\ alert_count_today[c] >= 1
        /\ previous_status[c] \in Bad

\* C7: a recovery alert is sent exactly in the calls whose new status is
\* Online and whose previously recorded status is Degraded or Offline; every
\* incident that ended has yielded exactly one recovery alert.
C7_RecoveryAlertExactlyOnRecovery ==
    [][CheckAllCameras =>
        \A c \in Cameras :
            /\ last_call'[c].recovery_alert <=>
                    (last_call'[c].status = "online" /\ previous_status[c] \in Bad)
            /\ closed_incident'[c] # NoClosed =>
                    closed_incident'[c].recovery_alerts = 1]_vars

C7_Witness ==
    \E c \in Cameras :
        /\ last_call[c].recovery_alert
        /\ previous_status[c] = "online"
        /\ closed_incident[c] # NoClosed
        /\ closed_incident[c].recovery_alerts = 1

C9_RecoveryKeepsTicketCooldown ==
    [][/\ CheckAllCameras =>
            \A c \in Cameras :
                /\ last_call'[c].status = "online" =>
                        /\ c \notin cameras_under_remediation'
                        /\ last_ticket_time'[c] = last_ticket_time[c]
                /\ last_ticket_time'[c] >= last_ticket_time[c]
       /\ (\E c \in Cameras : ClearRemediation(c, FALSE)) =>
            last_ticket_time' = last_ticket_time
       /\ (\E c \in Cameras : last_ticket_time'[c] < last_ticket_time[c]) =>
            (\E c \in Cameras : ClearRemediation(c, TRUE))]_vars

C9_Witness ==
    \E c \in Cameras :
        /\ last_call[c].status = "online"
        /\ InTicketCooldown(c)
        /\ c \notin cameras_under_remediation

\* C10: the reboot action is invoked only in a call that finds the device
\* outside its ticket cooldown window, not under remediation, and with
\* consecutiveFailures >= autoRebootThreshold.
C10_RebootOnlyWhenUnguarded ==
    [][CheckAllCameras =>
        \A c \in Cameras :
            (last_call'[c].reboot \/ last_ticket_time'[c] # last_ticket_time[c])
                => /\ ~ InTicketCooldown(c)
                   /\ c \notin cameras_under_remediation
                   /\ last_call'[c].failures >= auto_reboot_threshold
                   /\ last_call'[c].status # "online"]_vars

C10_Witness ==
    \E c \in Cameras :
        /\ last_call[c].reboot
        /\ c \in cameras_under_remediation
        /\ last_ticket_time[c] = now

(***************************************************************************)
(* Properties of the remediation manager, statement by statement.          *)
(***************************************************************************)

\* C11: the under-remediation guard and the ticket cooldown of a camera are
\* both set when the reboot action is invoked for it, they are still set
\* and unchanged when the action has returned success=false or has raised,
\* and the guard's ticket id changes only to a ticket id that the action
\* has just returned.
C11_GuardsSetBeforeRebootAndKept ==
    [][\A t \in Threads :
        /\ RebootCallback(t) =>
              /\ args[t].camera_name \in cameras_under_remediation
              /\ last_ticket_time[args[t].camera_name] # None
        /\ (HandleResult(t) /\ (reboot_result[t].raised \/ ~ reboot_result[t].success)) =>
              /\ args[t].camera_name \in cameras_under_remediation'
              /\ last_ticket_time'[args[t].camera_name] # None
              /\ UNCHANGED remediationVars
        /\ \A c \in Cameras :
              (ticket_id'[c] # ticket_id[c] /\ ticket_id'[c] # NoTicket) =>
                 \E u \in Threads :
                    /\ HandleResult(u)
                    /\ args[u].camera_name = c
                    /\ ~ reboot_result[u].raised
                    /\ reboot_result[u].ticket_id = ticket_id'[c]]_vars

\* the reboot action has failed or raised, the call has returned and both
\* guards are still set
C11_Witness ==
    \E c \in Cameras, t \in Threads :
        /\ pc[t] = "idle"
        /\ reboot_result[t] # NoResult
        /\ reboot_result[t].raised \/ ~ reboot_result[t].success
        /\ c \in cameras_under_remediation
        /\ last_ticket_time[c] # None
        /\ reboots[c] = 1

C13_CooldownSurvivesRestart ==
    [][\A t \in Threads :
        SetTicketTime(t) =>
            \/ cooldown_started[args[t].camera_name] = None
            \/ (now - cooldown_started[args[t].camera_name]) * 60
                    >= ticket_cooldown_hours * 3600]_vars

\* C14: with the scheduled and the manual batch interleaving, the reboot
\* action is invoked at most once for a camera while its guard is set, and
\* no two threads are past the cooldown and under-remediation checks for
\* the same camera at once.
C14_OneRebootPerIncident ==
    /\ \A c \in Cameras : reboots[c] <= 1
    /\ \A t, u \in Threads :
          (/\ t # u
           /\ pc[t] \in {"ticket_time", "mark", "reboot"}
           /\ pc[u] \in {"ticket_time", "mark", "reboot"})
          => args[t].camera_name # args[u].camera_name

(***************************************************************************)
(* Properties of the rule evaluation engine and of the probe.              *)
(***************************************************************************)

\* C15: for a rule with a non-zero rate_limit_minutes, an evaluation creates
\* an alert_history row for a (rule, camera) pair only when the pair's
\* previous row, if any, is at least rate_limit_minutes old; whether or not
\* the rate limit lookup raised.
C15_OneRowPerRateLimitWindow ==
    (/\ last_eval # NoEval
     /\ last_eval.alert_created
     /\ AlertRules[last_eval.rule_id].rate_limit_minutes # 0
     /\ last_eval.previous # None)
    => triggered_at[<<last_eval.rule_id, last_eval.camera_name>>] - last_eval.previous
            >= AlertRules[last_eval.rule_id].rate_limit_minutes

\* C16: whatever the type of the rule, when the rule suppresses alerts during
\* maintenance and the camera is inside a maintenance window while it is
\* evaluated, the evaluation creates no alert for that (rule, camera).
C16_NoAlertInsideMaintenance ==
    (/\ last_eval # NoEval
     /\ AlertRules[last_eval.rule_id].suppress_during_maintenance
     /\ last_eval.in_maintenance)
    => ~ last_eval.alert_created

\* C17: in a cycle that has read the rules, no camera of any rule is left
\* unevaluated because the evaluation of another camera or rule raised.
C17_NoCameraLeftOut ==
    cycle_read_rules => skipped = 0

\* C18: the engine's loop never returns because the store is unreachable,
\* and whenever the store is reachable (and the engine has a cycle left to
\* run) then, unless the store is lost again, a cycle that has read the
\* rules eventually completes.
C18_LoopSurvivesStoreOutage ==
    /\ [](engine_pc # "returned")
    /\ []((store_up /\ cycles < MaxCycles) =>
            <>(~ store_up \/ (engine_pc = "sleep" /\ cycle_read_rules)))

\* C19: an e-mail is dispatched only for a row that alert_history holds, and
\* the row of an e-mail that failed to be delivered has notification_sent = 0.
C19_FlagOnlyWhenDelivered ==
    /\ notification.delivery # "none" =>
            triggered_at[<<notification.rule_id, notification.camera_name>>] # None
    /\ notification.delivery = "failed" => notification.notification_sent = 0

\* C20: a completed check of a camera whose connectivity is connectivity_ok
\* and whose media service is media_ok has status online for (T,T), degraded
\* for (T,F) and offline for (F,T) and (F,F), and never unknown.
C20_StatusDerivation ==
    \A c \in Cameras :
        probe[c] # NoProbe =>
            /\ probe[c].status =
                    IF probe[c].connectivity_ok /\ probe[c].media_ok THEN "online"
                    ELSE IF probe[c].connectivity_ok THEN "degraded"
                    ELSE "offline"
            /\ probe[c].status # "unknown"

\* a completed check of a camera that is unreachable while its media service
\* would answer: offline
C20_Witness ==
    \E c \in Cameras :
        /\ probe[c] # NoProbe
        /\ ~ probe[c].connectivity_ok
        /\ probe[c].media_ok
        /\ probe[c].status = "offline"
        /\ db[c].current_status = "offline"

(***************************************************************************)
(* Properties of the persisted health record and of the two logs.          *)
(***************************************************************************)
\* C21: a persisted check, scheduled or manual, leaves the persisted
\* consecutive_failures at 0 when it yields online, and at one more than the
\* previous value (1 for the camera's first check) when it yields degraded
\* or offline.
C21_FailureCounter ==
    [][\A c \in Cameras :
        Len(camera_health_log'[c]) > Len(camera_health_log[c]) =>
            db'[c].consecutive_failures =
                IF camera_health_log'[c][Len(camera_health_log'[c])].status = "online"
                THEN 0
                ELSE IF db[c] = NoRow THEN 1
                ELSE db[c].consecutive_failures + 1]_vars

\* online, offline, degraded were persisted, the last one by a manual
\* check: the counter is at 2
C21_Witness ==
    \E c \in Cameras :
        /\ Len(camera_health_log[c]) = 3
        /\ camera_health_log[c][1].status = "online"
        /\ camera_health_log[c][2].status = "offline"
        /\ camera_health_log[c][3].status = "degraded"
        /\ last_log[c].outcome = "committed"
        /\ probe[c].check_type = "manual"
        /\ db[c].consecutive_failures = 2

\* C22: whatever checks failed part-way, the number of camera_health_log
\* rows of a camera equals the total_checks of its summary row, and the
\* camera has a summary row exactly when it has a log row.
C22_LogAndSummaryTogether ==
    \A c \in Cameras :
        /\ Len(camera_health_log[c]) = stats[c].total_checks
        /\ (db[c] = NoRow) <=> (camera_health_log[c] = << >>)

\* a check was persisted and the next one failed between its INSERT and
\* its commit
C22_Witness ==
    \E c \in Cameras :
        /\ last_log[c].outcome \in {"merge_raises", "commit_raises"}
        /\ Len(camera_health_log[c]) = 1
        /\ stats[c].total_checks = 1
        /\ probe[c].status # db[c].current_status

\* C26: uptime_percentage equals 100 * (online rows) / (rows) of the
\* camera's camera_health_log exactly, and successful_checks <= total_checks.
C26_UptimeIsExactShare ==
    \A c \in Cameras :
        /\ stats[c].successful_checks <= stats[c].total_checks
        /\ camera_health_log[c] # << >> =>
                stats[c].uptime_percentage * Len(camera_health_log[c])
                    = 10000 * OnlineEvents(camera_health_log[c])

\* C26, amended: uptime_percentage equals 100 * (online rows) / (rows) of the
\* camera's camera_health_log rounded to two decimals (it is within 0.005 of
\* the exact share), successful_checks is the number of online rows, and
\* successful_checks <= total_checks.
C26_UptimeIsRoundedShare ==
    \A c \in Cameras :
        /\ stats[c].successful_checks <= stats[c].total_checks
        /\ stats[c].successful_checks = OnlineEvents(camera_health_log[c])
        /\ camera_health_log[c] # << >> =>
                LET rows == Len(camera_health_log[c])
                    exact == 10000 * OnlineEvents(camera_health_log[c])
                    kept == stats[c].uptime_percentage * rows
                IN  /\ 2 * (kept - exact) <= rows
                    /\ 2 * (exact - kept) <= rows

\* one online row of three: 33.33
C26_Witness ==
    \E c \in Cameras :
        /\ Len(camera_health_log[c]) = 3
        /\ OnlineEvents(camera_health_log[c]) = 1
        /\ stats[c].uptime_percentage = 3333

\* C27: a persisted check whose ping failed leaves avg_ping_ms as it was,
\* and a persisted check whose snapshot failed leaves avg_snapshot_ms as it
\* was.
C27_FailedProbeKeepsAverage ==
    [][\A c \in Cameras :
        Len(camera_health_log'[c]) > Len(camera_health_log[c]) =>
            /\ ~ probe'[c].ping_success =>
                    stats'[c].avg_ping_ms = stats[c].avg_ping_ms
            /\ ~ probe'[c].snapshot_success =>
                    stats'[c].avg_snapshot_ms = stats[c].avg_snapshot_ms]_vars

\* C28: a camera has an open row in camera_downtime_log exactly when its
\* persisted status is degraded or offline, and never more than one.
C28_OpenIntervalIffNotOnline ==
    \A c \in Cameras :
        /\ (db[c].current_status \in Bad) <=> (OpenIntervals(c) # {})
        /\ Cardinality(OpenIntervals(c)) <= 1

(***************************************************************************)
(* Properties of a batch in which persisting or probing fails.             *)
(***************************************************************************)

\* C23: in a batch in which a camera's check is not persisted, the alert
\* and the remediation controller are still handed, for that camera, the
\* status the check found and the number of consecutive degraded/offline
\* checks that this check ends.
C23_ControllersSeeUnpersistedCheck ==
    [][CheckAllCamerasOutage =>
        \A c \in Cameras :
            ~ outage'[c].persisted =>
                /\ last_call'[c].status = outage'[c].status
                /\ last_call'[c].failures = outage'[c].streak]_vars
\* C24: when the loop of a batch is over, every configured camera with an
\* address has been probed in that batch, whatever was raised by the probe
\* or went wrong in persisting another camera's check.
C24_EveryCameraChecked ==
    batch_index = Len(camera_config) + 1 =>
        \A i \in DOMAIN camera_config :
            camera_config[i].ip => batch_outcome[camera_config[i].name] # "pending"

\* the probe of CAM-1 raised and CAM-3 was checked and logged all the same
C24_Witness ==
    /\ batch_index = Len(camera_config) + 1
    /\ batch_outcome["CAM-1"] = "raised"
    /\ batch_outcome["CAM-2"] = "no_ip"
    /\ batch_outcome["CAM-3"] = "offline"
\* C25: after every batch, the cache that get_all_camera_status returns
\* holds for each checked camera the status and the consecutive_failures of
\* the camera's summary row as the batch has written it.
C25_CacheIsTheStoredRecord ==
    [][CheckAllCameras =>
        \A c \in Cameras :
            /\ health_cache'[c].status = db'[c].current_status
            /\ health_cache'[c].consecutive_failures = db'[c].consecutive_failures]_vars

(***************************************************************************)
(* Properties of the rules evaluated against the tables.                   *)
(***************************************************************************)

\* C29: an evaluation of a camera under an sla_violation rule in which the
\* store answered the query and took the INSERT creates an alert exactly
\* when the camera has at least one camera_health_log row inside the
\* evaluation window, the share of online rows in the window is strictly
\* below the threshold, the camera is not inside a maintenance window (the
\* rule suppresses) and the pair has no alert younger than
\* rate_limit_minutes; the alert records the computed uptime.
C29_SlaAlertExactlyBelowThreshold ==
    (rule_eval.rule_id = 1 /\ rule_eval.answered) =>
        LET rule == AlertRules[1]
            log == camera_health_log["CAM-1"]
            window == {j \in DOMAIN log :
                        log[j].check_timestamp >=
                            rule_eval.at - rule.evaluation_window_minutes}
            online == {j \in window : log[j].status = "online"}
        IN  /\ rule_eval.alert_created <=>
                  /\ window # {}
                  /\ 100 * Cardinality(online)
                        < rule_eval.threshold_value * Cardinality(window)
                  /\ ~ (rule.suppress_during_maintenance /\ rule_eval.in_maintenance)
                  /\ ~ (/\ rule_eval.previous # None
                        /\ rule_eval.previous >= rule_eval.at - rule.rate_limit_minutes)
            /\ rule_eval.alert_created =>
                  rule_eval.trigger_value =
                        <<100 * Cardinality(online), Cardinality(window)>>

\* C30: an evaluation of a camera under an extended_downtime rule in which
\* the store answered the query and took the INSERT creates an alert
\* exactly when the camera's most recent open camera_downtime_log row
\* started within the last 24 hours and at least threshold minutes ago, the
\* camera is not inside a maintenance window (the rule suppresses) and the
\* pair has no alert younger than rate_limit_minutes.
C30_DowntimeAlertExactlyAtThreshold ==
    (rule_eval.rule_id = 2 /\ rule_eval.answered) =>
        LET rule == AlertRules[2]
            open == OpenIntervals("CAM-1")
        IN  rule_eval.alert_created <=>
                /\ \E r \in open :
                      /\ \A q \in open : q.downtime_start <= r.downtime_start
                      /\ r.downtime_start >= rule_eval.at - 24 * 60
                      /\ rule_eval.at - r.downtime_start >= rule_eval.threshold_value
                /\ ~ (rule.suppress_during_maintenance /\ rule_eval.in_maintenance)
                /\ ~ (/\ rule_eval.previous # None
                      /\ rule_eval.previous >= rule_eval.at - rule.rate_limit_minutes)

\* C31: an evaluation of a camera under a recovery rule in which the store
\* answered and the pair has no earlier alert creates an alert exactly when
\* the camera's most recently closed camera_downtime_log row ended inside
\* the rule's window and lasted at least threshold minutes; an older long
\* row does not count when the most recently closed one is shorter.
C31_RecoveryLooksAtLastClosedInterval ==
    (rule_eval.rule_id = 3 /\ rule_eval.answered /\ rule_eval.previous = None) =>
        LET rule == AlertRules[3]
            closed == {r \in camera_downtime_log["CAM-1"] : r.downtime_end # None}
        IN  rule_eval.alert_created <=>
                \E r \in closed :
                    /\ \A q \in closed : q.downtime_end <= r.downtime_end
                    /\ r.downtime_end >= rule_eval.at - rule.evaluation_window_minutes
                    /\ r.downtime_end - r.downtime_start >= rule_eval.threshold_value

\* C40: an evaluation of a camera under an extended_downtime rule with a
\* threshold, in which the store answered, the camera is outside any
\* maintenance window and the pair has no alert younger than
\* rate_limit_minutes, creates an alert whenever the camera's one open
\* camera_downtime_log row has lasted at least threshold minutes, however
\* long ago it started.
C40_OpenIntervalKeepsAlerting ==
    (/\ rule_eval.rule_id = 2
     /\ rule_eval.answered
     /\ rule_eval.threshold_value # 0
     /\ ~ rule_eval.in_maintenance
     /\ ~ (/\ rule_eval.previous # None
           /\ rule_eval.previous >= rule_eval.at - AlertRules[2].rate_limit_minutes)) =>
        LET open == OpenIntervals("CAM-1")
        IN  (/\ Cardinality(open) = 1
             /\ \A r \in open :
                    rule_eval.at - r.downtime_start >= rule_eval.threshold_value)
                => rule_eval.alert_created

\* C40 as the code has it: under the same conditions the one open row that
\* has lasted at least threshold minutes raises an alert exactly while it
\* started within the last 24 hours; an older open row raises none, also
\* after the rate-limit window has passed.
C40_OpenIntervalAlertsForOneDay ==
    (/\ rule_eval.rule_id = 2
     /\ rule_eval.answered
     /\ rule_eval.threshold_value # 0
     /\ ~ rule_eval.in_maintenance
     /\ ~ (/\ rule_eval.previous # None
           /\ rule_eval.previous >= rule_eval.at - AlertRules[2].rate_limit_minutes)) =>
        LET open == OpenIntervals("CAM-1")
        IN  Cardinality(open) = 1 =>
                \A r \in open :
                    rule_eval.at - r.downtime_start >= rule_eval.threshold_value =>
                        (rule_eval.alert_created <=>
                            r.downtime_start >= rule_eval.at - 24 * 60)

\* C36: whatever start_background_checks and stop_background_checks calls
\* are made, at most one background check loop executes a batch at a time:
\* a stop followed by a start while the old thread sleeps does not leave
\* two loops running.
C36_AtMostOneLoopExecutes ==
    Cardinality({t \in 1..MaxLoops : background.loop[t] = "checking"}) <= 1

\* C39: the counts get_health_statistics returns add up: online + offline
\* + degraded + unknown = total_cameras, also when the store does not
\* answer and the statuses are the 'unknown' placeholders.
C39_StatisticsAddUp ==
    health_statistics.online + health_statistics.offline
        + health_statistics.degraded + health_statistics.unknown
            = health_statistics.total_cameras

\* C38: a camera whose first observed status after process start was
\* degraded or offline (the incident did not begin from online), and for
\* which the controller has been handed a failure count at or above
\* alert_threshold, has had an offline alert by the time it is seen online
\* again.
C38_FirstIncidentIsReported ==
    [][\A c \in Cameras :
        (/\ previous_status[c] \in Bad
         /\ ~ incident[c].open
         /\ last_call[c].failures >= alert_threshold
         /\ previous_status'[c] = "online")
            => alert_count_today[c] >= 1]_vars

\* C38 as the code has it: while a camera is in the incident that began
\* with its first observation after process start (previous status
\* unknown), no offline alert has been sent for it, whatever failure count
\* the controller is handed.
C38_FirstIncidentIsNeverReported ==
    \A c \in Cameras :
        (previous_status[c] \in Bad /\ ~ incident[c].open) =>
            /\ alert_count_today[c] = 0
            /\ ~ last_call[c].offline_alert
            /\ last_alert_time[c] = None

\* the camera has been down since it was first observed, the controller
\* has been handed a count at or above the threshold, and no alert was sent
C38_Witness ==
    \E c \in Cameras :
        /\ previous_status[c] = "offline"
        /\ ~ incident[c].open
        /\ closed_incident[c] = NoClosed
        /\ last_call[c].status = "offline"
        /\ last_call[c].failures >= alert_threshold
        /\ alert_count_today[c] = 0

\* C37: while AlertEngine.running is True the thread of _run_loop is alive:
\* it has not returned, also when the first connection to the store failed
\* (a state in which start() answers 'already running').
C37_RunningMeansLiveLoop ==
    engine.running => engine_pc # "returned"

C34_WeeklyReportEveryWeek ==
    (scheduler.running /\ ~ scheduler.send_failed) =>
        \A week \in 0..(MaxWeeks - 1) :
            LET minute == (week * 7 + weekly_report_day) * SecondsPerDay
                            + weekly_report_time * 60
            IN  scheduler.at - 60 >= minute + 60 =>
                    Cardinality({sent \in scheduler.weekly_sent :
                                    sent >= minute /\ sent < minute + 60}) = 1

\* C33: whenever a thread probes a camera or queries the store it does not
\* hold the cache lock: the lock is held only by a thread whose next
\* statement reads or updates the cache in memory, and the statement a
\* thread has executed under the lock was such a statement.
C33_NoNetworkUnderLock ==
    \A t \in LockThreads :
        /\ lock_did[t].did \in {"probe", "store", "notify"} => ~ lock_did[t].held
        /\ lock_did[t].held => lock_did[t].did = "memory"
        /\ lock = t => lock_pc[t].at \in
                {"update", "status_read", "status_store", "refresh"}

\* the loop has written a check to the store and waits for the lock, which
\* the reader holds to assign the rows it has read from the store
C33_Witness ==
    /\ lock = "reader"
    /\ lock_pc["reader"].at = "status_store"
    /\ lock_did["reader"] = [did |-> "store", held |-> FALSE]
    /\ lock_did["loop"] = [did |-> "store", held |-> FALSE]
    /\ lock_pc["loop"].at = "update"

C40_Witness ==
    /\ rule_eval.rule_id = 2
    /\ rule_eval.answered
    /\ rule_eval.threshold_value = 25
    /\ ~ rule_eval.in_maintenance
    /\ rule_eval.previous # None
    /\ rule_eval.previous < rule_eval.at - AlertRules[2].rate_limit_minutes
    /\ OpenIntervals("CAM-1") = {[downtime_start |-> -1438, downtime_end |-> None]}
    /\ ~ rule_eval.alert_created
====
